---------------------------- MODULE Spec2Model ----------------------------
(***************************************************************************)
(* State-machine model of the LAN audio streamer:                          *)
(*   - JitterBuffer and RingBuffer          (src/src/audio/buffer.rs)      *)
(*   - TrackManager                         (src/src/tracks/manager.rs)    *)
(*   - receiver / peer applications         (src/src/bin/*.rs)             *)
(*   - MultiTrackSender                     (src/src/network/sender.rs)    *)
(*   - HandshakeManager                     (src/src/network/handshake.rs) *)
(*   - AudioPacket                          (src/src/protocol.rs)          *)
(*   - SmoothLevelMeter                     (src/src/audio/level_meter.rs) *)
(*   - worker threads and stop()            (src/src/network/*.rs)         *)
(* Every component has its own specification (SpecJitter, SpecRing, ...):  *)
(* the variables of the other components stay at their initial value.      *)
(***************************************************************************)
EXTENDS Integers, Sequences, FiniteSets, TLC

VARIABLES
    jitter,      \* the JitterBuffer object (record, fields named as in the source)
    jb_ins,      \* history: sequences passed to insert since construction, while no get_next was called
    jb_calls,    \* history: results of the get_next calls made after those inserts
    jb_scn,      \* history: TRUE while the run is "inserts into a fresh buffer, then get_next calls"
    jb_last,     \* history: what the last call on the buffer did
    jb_ngets,    \* history: number of get_next calls made
    jb_call,     \* history: the last call on the buffer, with what it changed
    jb_run,      \* history: the sequences inserted since construction or the last reset
    jb_ncalls,   \* history: number of calls made on the buffer
    ring,        \* the RingBuffer object: queue, capacity, overflow_count, underrun_count
    rb_pc,       \* where the producer and the consumer thread are inside their call
    rb_pushed,   \* history: the frames pushed successfully, in order
    rb_popped,   \* history: the frames popped, in order
    rb_calls,    \* history: number of push calls, of failed push calls, of pop and try_pop calls
    rb_last,     \* history: what the last queue operation did
    manager,     \* the TrackManager object: tracks, next_id, solo_active, events (the event bus)
    tm_last,     \* history: the last TrackManager call and its result
    tm_call,     \* history: the last call with its arguments, its result, the events it
                 \* published and what it changed
    threads,     \* per thread, the TrackManager call it is in and where it is in it
    th_started,  \* history: per operation, the number of concurrent calls started
    th_last,     \* history: the last concurrent call that returned
    colliding,   \* DashMap: whether the keys in play hash to one shard
    deleted_tracks,  \* receiver / peer: the set of ids not to re-create from packets
    track_states,    \* receiver / peer: the ids that have a playback state (keys of the map)
    input_states,    \* peer: the ids that have a capture state (keys of the map)
    states_lock,     \* who holds the mutex of track_states: "free", "main"
    main_pc,         \* the packet loop: its position and the packet's track_id
    handler_pc,      \* the event-handler task: its position and the event's track_id
    event_rx,        \* the number of events the handler's subscription has delivered
    user_removed,    \* history: ids the user removed and has not created again since
    app_last,        \* history: what the packet loop did last
    app_npackets,    \* history: number of packets taken from the channel
    app_late,        \* history: the packet in hand arrived after the user removed its
                     \* track_id, and the user has not created the id since
    sequences,       \* MultiTrackSender: the per-track sequence counters (DashMap<u8, u32>)
    packet_tx,       \* AudioSender: the input channel, its queue and whether a receiver exists
    running,         \* AudioSender: the running flag
    packets_sent,    \* AudioSender: the packets_sent counter
    caller_pc,       \* each caller of send_audio: its position, track_id and sequence
    ms_prior,        \* history: per track, the send_audio calls made before the run
    ms_assigned,     \* history: per track, the sequences assigned, in order of assignment
    ms_enqueued,     \* history: per track, the sequences enqueued, in order of enqueueing
    ms_failed,       \* history: per track, the sequences whose send returned SendFailed,
                     \* and whether it was because the channel was full
    ms_ncalls,       \* history: number of send_audio calls started
    handshake,       \* HandshakeManager: its fields, states being the map of the RwLock
    hs_last,         \* history: the last call of the manager, its input and its result
    hs_ncalls,       \* history: number of calls made on the manager
    hs_sent,         \* history: per address, the session_id of the Hello last sent to it
    hs_now,          \* the monotonic clock Instant::now() reads, in ticks
    peers,           \* DiscoveryService: the discovered peers (Vec<DiscoveredPeer>)
    callback,        \* DiscoveryService: whether the listener holds a callback
    dc_now,          \* the monotonic clock of the listener thread, in seconds
    dc_swept_at,     \* history: the time of the last sweep of the listener loop
    dc_rx,           \* history: per source IP and role, the receptions of its beacons
    dc_iters,        \* history: number of iterations of the listener loop
    wire,            \* protocol: the AudioPacket serialized last, the bytes in hand and
                     \* what deserialize made of them
    compat,          \* handshake: two PeerCapabilities and what is_compatible_with returned
    meter,           \* SmoothLevelMeter: state (level, peak), last_update_us, last_peak_us
    lm_now,          \* the time start_time.elapsed() reads, in microseconds
    audio_pc,        \* the audio thread inside update_from_samples: position and locals
    ui_pc,           \* the UI thread inside tick_for_ui: position and locals
    lm_rise,         \* history: the last rise of the stored peak, the time the call that
                     \* made it read the clock, and its level
    lm_ncalls,       \* history: number of update_from_samples and of tick_for_ui calls
    svc,             \* a service with worker threads (DiscoveryService, AudioReceiver,
                     \* AudioSender): which one, its running flag, its thread handles
    workers,         \* per worker thread, where it is in its loop
    owner_pc,        \* the thread that owns the service: idle or inside stop()
    svc_hist,        \* history: calls made, what the workers did, what they did after
                     \* a stop() had returned and before the next start(), and
                     \* whether the last start() returned an error
    receiver,        \* AudioReceiver: its counters, the per-track channels and the
                     \* global channel the receive loop dispatches to
    rx_last,         \* history: what the last iteration of the receive loop did
    peerapp,         \* bin/peer.rs: the connected-peer map, the senders per peer, the
                     \* clock, and which of the two functions ran last
    link             \* two HandshakeManagers, the handshake packets in flight between
                     \* them, and the clock

jitterVars == <<jitter, jb_ins, jb_calls, jb_scn, jb_last, jb_ngets, jb_call, jb_run, jb_ncalls>>

ringVars == <<ring, rb_pc, rb_pushed, rb_popped, rb_calls, rb_last>>

trackVars == <<manager, tm_last, tm_call>>

threadVars == <<threads, th_started, th_last, colliding>>

appVars == <<deleted_tracks, track_states, input_states, states_lock, main_pc, handler_pc,
             event_rx, user_removed, app_last, app_npackets, app_late>>

senderVars == <<sequences, packet_tx, running, packets_sent, caller_pc,
                ms_prior, ms_assigned, ms_enqueued, ms_failed, ms_ncalls>>

handshakeVars == <<handshake, hs_last, hs_ncalls, hs_sent, hs_now>>

discoveryVars == <<peers, callback, dc_now, dc_swept_at, dc_rx, dc_iters>>

packetVars == <<wire>>

capsVars == <<compat>>

meterVars == <<meter, lm_now, audio_pc, ui_pc, lm_rise, lm_ncalls>>

serviceVars == <<svc, workers, owner_pc, svc_hist>>

dispatchVars == <<receiver, rx_last>>

peerappVars == <<peerapp>>

linkVars == <<link>>

vars == <<jitterVars, ringVars, trackVars, threadVars, appVars, senderVars, handshakeVars,
          discoveryVars, packetVars, capsVars, meterVars, serviceVars, dispatchVars,
          peerappVars, linkVars>>

\* a step of component c leaves the other components alone
Idle(c) ==
    /\ IF c \in {"jitter", "jbops"} THEN TRUE ELSE UNCHANGED jitterVars
    /\ IF c = "ring" THEN TRUE ELSE UNCHANGED ringVars
    /\ IF c \in {"tracks", "app", "calls", "threads"} THEN TRUE ELSE UNCHANGED trackVars
    /\ IF c = "threads" THEN TRUE ELSE UNCHANGED threadVars
    /\ IF c = "app" THEN TRUE ELSE UNCHANGED appVars
    /\ IF c = "sender" THEN TRUE ELSE UNCHANGED senderVars
    /\ IF c = "handshake" THEN TRUE ELSE UNCHANGED handshakeVars
    /\ IF c = "discovery" THEN TRUE ELSE UNCHANGED discoveryVars
    /\ IF c = "packet" THEN TRUE ELSE UNCHANGED packetVars
    /\ IF c = "caps" THEN TRUE ELSE UNCHANGED capsVars
    /\ IF c = "meter" THEN TRUE ELSE UNCHANGED meterVars
    /\ IF c = "service" THEN TRUE ELSE UNCHANGED serviceVars
    /\ IF c = "dispatch" THEN TRUE ELSE UNCHANGED dispatchVars
    /\ IF c = "peerapp" THEN TRUE ELSE UNCHANGED peerappVars
    /\ IF c = "link" THEN TRUE ELSE UNCHANGED linkVars

---------------------------------------------------------------------------
(* Integer widths *)

\* The modulus of the u32 sequence arithmetic.  The checker's integers are
\* 32-bit signed, so the model's words are 30 bits wide: the same wrap-around
\* arithmetic (wrapping_add, wrapping_sub, the signed reading) on 2^30 values.
U32 == 1073741824

\* i32::MIN of the signed reading: -(U32 / 2)
I32Min == -536870912

\* a.wrapping_sub(b) on u32
wrapping_sub(a, b) == (a - b) % U32

\* a.wrapping_add(b) on u32
wrapping_add(a, b) == (a + b) % U32

\* `x as i32` for a u32 x
as_i32(x) == IF x >= -I32Min THEN x - U32 ELSE x

\* bitwise AND of two naturals
RECURSIVE BitAnd(_, _)
BitAnd(a, b) ==
    IF a = 0 \/ b = 0 THEN 0
    ELSE (IF a % 2 = 1 /\ b % 2 = 1 THEN 1 ELSE 0) + 2 * BitAnd(a \div 2, b \div 2)

is_power_of_two(n) == n \in {1, 2, 4, 8, 16, 32, 64}

Min(a, b) == IF a < b THEN a ELSE b
Max(a, b) == IF a > b THEN a ELSE b

---------------------------------------------------------------------------
(* JitterBuffer *)

\* an empty slot / an empty Option<AudioFrame>
NoFrame == -1

\* bounds of the jitter-buffer runs
MaxInserts == 3
MaxGets == 3

\* (capacity, min_delay) pairs the buffer is constructed with; the unit test
\* uses (16, 2), the applications (32, 2)
JitterConfigs == {<<2, 1>>, <<4, 1>>, <<4, 2>>, <<16, 2>>, <<4, 3>>}

\* sequence numbers of the frames that arrive
SeqInputs == {0, 1, 2, 4, U32 - 1}

\* time between two insert calls, in microseconds: back to back, on time, delayed
InterArrivalUs == {0, 10000, 130000}

\* JitterBuffer::new
JitterBufferNew(capacity, min_delay) ==
    [ slots |-> [i \in 0..(capacity - 1) |-> NoFrame],
      capacity |-> capacity,
      mask |-> capacity - 1,
      next_sequence |-> 0,
      min_delay |-> min_delay,
      max_delay |-> capacity \div 2,
      target_delay |-> min_delay,
      level |-> 0,
      received |-> 0,
      lost |-> 0,
      late |-> 0,
      out_of_order |-> 0,
      last_receive_time |-> FALSE,
      jitter_estimate_us |-> 0,
      initialized |-> FALSE,
      panicked |-> ~is_power_of_two(capacity) ]

\* ceil(jitter_estimate_us / 10000.0)
jitter_frames(jb) == (jb.jitter_estimate_us + 9999) \div 10000

\* JitterBuffer::adapt_delay; usize::clamp panics when min > max
adapt_delay(jb) ==
    IF jb.min_delay > jb.max_delay THEN [jb EXCEPT !.panicked = TRUE]
    ELSE
    LET new_target == Max(jb.min_delay, Min(jb.min_delay + jitter_frames(jb), jb.max_delay))
    IN  IF new_target > jb.target_delay
        THEN [jb EXCEPT !.target_delay = Min(jb.target_delay + 1, new_target)]
        ELSE IF new_target < jb.target_delay /\ jb.level > new_target
        THEN [jb EXCEPT !.target_delay = Max(Max(jb.target_delay - 1, 0), new_target)]
        ELSE jb

\* the jitter-estimate part of insert: exponential moving average (alpha 0.1)
\* of |inter_arrival - 10 ms|, in whole microseconds, then adapt_delay
update_jitter(jb, inter_arrival_us) ==
    IF jb.last_receive_time
    THEN LET deviation == IF inter_arrival_us >= 10000 THEN inter_arrival_us - 10000
                          ELSE 10000 - inter_arrival_us
         IN  adapt_delay([jb EXCEPT !.jitter_estimate_us = (9 * jb.jitter_estimate_us + deviation) \div 10])
    ELSE jb

\* JitterBuffer::insert, after the jitter update.  wrap is the build's
\* treatment of the overflowing negation -(i32::MIN): TRUE wraps (release),
\* FALSE panics (debug).  The result is the new buffer and the return value.
insert_frame(jb0, seq, wrap) ==
    LET jb1 == [jb0 EXCEPT !.last_receive_time = TRUE]
        jb2 == IF ~jb1.initialized
               THEN [jb1 EXCEPT !.next_sequence = seq, !.initialized = TRUE]
               ELSE jb1
        seq_diff == as_i32(wrapping_sub(seq, jb2.next_sequence))
        behind == IF seq_diff = I32Min THEN -I32Min ELSE -seq_diff
        index == BitAnd(seq, jb2.mask)
    IN  IF seq_diff = I32Min /\ ~wrap
        THEN [jb |-> [jb2 EXCEPT !.panicked = TRUE], ok |-> FALSE]
        ELSE IF seq_diff < 0 /\ ~(behind > jb2.capacity \div 2)
        THEN [jb |-> [jb2 EXCEPT !.late = @ + 1], ok |-> FALSE]
        ELSE [jb |-> [jb2 EXCEPT
                        !.out_of_order = IF seq_diff > 1 /\ seq_diff < jb2.capacity \div 2
                                         THEN @ + 1 ELSE @,
                        !.slots[index] = seq,
                        !.received = @ + 1,
                        !.level = @ + 1],
              ok |-> TRUE]

\* JitterBuffer::insert
insert(jb, seq, inter_arrival_us, wrap) ==
    LET j == update_jitter(jb, inter_arrival_us)
    IN  IF j.panicked THEN [jb |-> j, ok |-> FALSE]
        ELSE insert_frame(j, seq, wrap)

\* get_next that steps over an empty slot without counting the loss
get_next_uncounted(jb) ==
    IF jb.level < jb.target_delay
    THEN [jb |-> jb, frame |-> NoFrame, gated |-> TRUE]
    ELSE LET index == BitAnd(jb.next_sequence, jb.mask)
             frame == jb.slots[index]
         IN  [jb |-> [jb EXCEPT
                        !.slots[index] = NoFrame,
                        !.level = IF frame # NoFrame THEN @ - 1 ELSE @,
                        !.next_sequence = wrapping_add(@, 1)],
              frame |-> frame,
              gated |-> FALSE]

\* JitterBuffer::get_next: the new buffer, the returned frame and whether the
\* call was stopped by the prebuffer gate
get_next(jb) ==
    IF jb.level < jb.target_delay
    THEN [jb |-> jb, frame |-> NoFrame, gated |-> TRUE]
    ELSE LET index == BitAnd(jb.next_sequence, jb.mask)
             frame == jb.slots[index]
         IN  [jb |-> [jb EXCEPT
                        !.slots[index] = NoFrame,
                        !.level = IF frame # NoFrame THEN @ - 1 ELSE @,
                        !.lost = IF frame # NoFrame THEN @ ELSE @ + 1,
                        !.next_sequence = wrapping_add(@, 1)],
              frame |-> frame,
              gated |-> FALSE]

\* JitterBuffer::force_get_next: get_next without the prebuffer gate, the
\* level decremented with saturation at 0
force_get_next(jb) ==
    LET index == BitAnd(jb.next_sequence, jb.mask)
        frame == jb.slots[index]
    IN  [jb |-> [jb EXCEPT
                   !.slots[index] = NoFrame,
                   !.level = IF frame # NoFrame THEN Max(@ - 1, 0) ELSE @,
                   !.lost = IF frame # NoFrame THEN @ ELSE @ + 1,
                   !.next_sequence = wrapping_add(@, 1)],
         frame |-> frame,
         gated |-> FALSE]

\* reset that also zeroes the cumulative counters
reset_clearing_counters(jb) ==
    [jb EXCEPT !.slots = [i \in DOMAIN jb.slots |-> NoFrame],
               !.next_sequence = 0,
               !.level = 0,
               !.received = 0,
               !.lost = 0,
               !.late = 0,
               !.out_of_order = 0,
               !.target_delay = jb.min_delay,
               !.jitter_estimate_us = 0,
               !.last_receive_time = FALSE,
               !.initialized = FALSE]

\* JitterBuffer::reset
reset(jb) ==
    [jb EXCEPT !.slots = [i \in DOMAIN jb.slots |-> NoFrame],
               !.next_sequence = 0,
               !.level = 0,
               !.target_delay = jb.min_delay,
               !.jitter_estimate_us = 0,
               !.last_receive_time = FALSE,
               !.initialized = FALSE]

NoCall == [op |-> "none"]

\* nothing inserted yet
NoRun == [high |-> -1, top |-> -1, forced |-> FALSE]

JitterInit ==
    /\ \E c \in JitterConfigs : jitter = JitterBufferNew(c[1], c[2])
    /\ jb_ins = <<>>
    /\ jb_calls = <<>>
    /\ jb_scn = TRUE
    /\ jb_last = NoCall
    /\ jb_ngets = 0
    /\ jb_call = NoCall
    /\ jb_run = NoRun
    /\ jb_ncalls = 0

\* a call of insert(frame) with frame.sequence = seq
Insert(seq, ia, wrap) ==
    /\ Idle("jitter")
    /\ ~jitter.panicked
    /\ jitter.received + jitter.late < MaxInserts
    /\ LET r == insert(jitter, seq, ia, wrap)
       IN  /\ jitter' = r.jb
           /\ jb_last' = [op |-> "insert", seq |-> seq, ok |-> r.ok]
           /\ IF jb_scn /\ jb_calls = <<>>
              THEN /\ jb_ins' = Append(jb_ins, seq)
                   /\ UNCHANGED <<jb_calls, jb_scn>>
              ELSE /\ jb_scn' = FALSE
                   /\ jb_ins' = <<>>
                   /\ jb_calls' = <<>>
           /\ UNCHANGED <<jb_ngets, jb_call, jb_run, jb_ncalls>>

\* a call of get_next()
GetNext ==
    /\ Idle("jitter")
    /\ ~jitter.panicked
    /\ jb_ngets < MaxGets
    /\ LET r == get_next(jitter)
           call == [want |-> jitter.next_sequence, got |-> r.frame, gated |-> r.gated,
                    lost_before |-> jitter.lost, lost_after |-> r.jb.lost]
       IN  /\ jitter' = r.jb
           /\ jb_last' = [op |-> "get_next", want |-> call.want, got |-> call.got,
                          gated |-> call.gated]
           /\ jb_calls' = IF jb_scn THEN Append(jb_calls, call) ELSE jb_calls
           /\ jb_ngets' = jb_ngets + 1
           /\ UNCHANGED <<jb_ins, jb_scn, jb_call, jb_run, jb_ncalls>>

JitterNext ==
    \/ \E seq \in SeqInputs :
         \E ia \in (IF jitter.last_receive_time THEN InterArrivalUs ELSE {10000}) :
           \E wrap \in (IF as_i32(wrapping_sub(seq, jitter.next_sequence)) = I32Min
                           /\ jitter.initialized
                        THEN BOOLEAN ELSE {TRUE}) :
             Insert(seq, ia, wrap)
    \/ GetNext

---------------------------------------------------------------------------
(* JitterBuffer, call by call: insert, get_next, force_get_next and reset in
   any order, each call recorded with what it changed. *)

\* bound on the number of calls
MaxJitterCalls == 4

\* the cumulative counters of the buffer
Counters(jb) == <<jb.received, jb.lost, jb.late, jb.out_of_order>>

\* the call is recorded and the buffer replaced
JitterCalled(call, jb, run) ==
    /\ ~jitter.panicked
    /\ jb_ncalls < MaxJitterCalls
    /\ jb_ncalls' = jb_ncalls + 1
    /\ jitter' = jb
    /\ jb_run' = run
    /\ jb_call' = [op |-> call.op, seq |-> call.seq, ok |-> call.ok, d |-> call.d,
                   first |-> ~jitter.initialized,
                   top |-> jb_run.top,
                   late_delta |-> jb.late - jitter.late,
                   received_delta |-> jb.received - jitter.received,
                   store_same |-> jb.slots = jitter.slots /\ jb.level = jitter.level,
                   target_delta |-> jb.target_delay - jitter.target_delay,
                   counters_same |-> Counters(jb) = Counters(jitter)]
    /\ UNCHANGED <<jb_ins, jb_calls, jb_scn, jb_last, jb_ngets>>

\* a call of insert(frame) with frame.sequence = seq
JbInsert ==
    /\ Idle("jbops")
    /\ \E seq \in SeqInputs :
         \E ia \in (IF jitter.last_receive_time THEN InterArrivalUs ELSE {10000}) :
           \E wrap \in (IF as_i32(wrapping_sub(seq, jitter.next_sequence)) = I32Min
                           /\ jitter.initialized
                        THEN BOOLEAN ELSE {TRUE}) :
             LET r == insert(jitter, seq, ia, wrap)
                 next == IF jitter.initialized THEN jitter.next_sequence ELSE seq
             IN  JitterCalled([op |-> "insert", seq |-> seq, ok |-> r.ok,
                               d |-> as_i32(wrapping_sub(seq, next))],
                              r.jb,
                              [jb_run EXCEPT !.top = Max(@, seq),
                                             !.high = IF r.ok THEN Max(@, seq) ELSE @])

\* a call of get_next()
JbGetNext ==
    /\ Idle("jbops")
    /\ LET r == get_next(jitter)
       IN  JitterCalled([op |-> "get_next", seq |-> r.frame, ok |-> ~r.gated, d |-> 0],
                        r.jb, jb_run)

\* a call of force_get_next()
JbForceGetNext ==
    /\ Idle("jbops")
    /\ LET r == force_get_next(jitter)
       IN  JitterCalled([op |-> "force_get_next", seq |-> r.frame, ok |-> TRUE, d |-> 0],
                        r.jb, [jb_run EXCEPT !.forced = TRUE])

\* a call of reset()
JbReset ==
    /\ Idle("jbops")
    /\ JitterCalled([op |-> "reset", seq |-> NoFrame, ok |-> TRUE, d |-> 0],
                    reset(jitter), NoRun)

JbOpsNext ==
    \/ JbInsert
    \/ JbGetNext
    \/ JbForceGetNext
    \/ JbReset

---------------------------------------------------------------------------
(* Properties of the JitterBuffer *)

\* the frames returned by the get_next calls that passed the prebuffer gate
Delivered == SelectSeq(jb_calls, LAMBDA c : ~c.gated)

\* ins is an arrival order of the sequences s, s+1, ..., s+k
IsArrivalOf(ins, s) ==
    /\ Len(ins) >= 1
    /\ \A j \in 0..(Len(ins) - 1) : \E i \in 1..Len(ins) : ins[i] = wrapping_add(s, j)

\* C1: frames s..s+k (k+1 <= N/2) inserted into a fresh buffer in any arrival
\* order, with no get_next in between, come out of the get_next calls that pass
\* the prebuffer gate in ascending order beginning with s; and after inserting
\* 2, 0, 1 into a buffer of capacity 16 and min_delay 2, get_next returns
\* seq 0, then seq 1, then nothing.
C1_AnyArrivalOrderIsSorted ==
    /\ \A s \in SeqInputs :
         (jb_scn /\ IsArrivalOf(jb_ins, s) /\ Len(jb_ins) <= jitter.capacity \div 2)
            => \A i \in 1..Len(Delivered) : Delivered[i].got = wrapping_add(s, i - 1)
    /\ (jb_scn /\ jb_ins = <<2, 0, 1>> /\ jitter.capacity = 16 /\ jitter.min_delay = 2)
            => /\ Len(jb_calls) >= 1 => jb_calls[1].got = 0
               /\ Len(jb_calls) >= 2 => jb_calls[2].got = 1
               /\ Len(jb_calls) >= 3 => jb_calls[3].got = NoFrame

\* C2: every frame get_next returns carries the sequence next_sequence had
\* when the call was made (a missing sequence yields nothing, never a frame of
\* another sequence).
C2_DeliveredIsNextSequence ==
    (jb_last.op = "get_next" /\ jb_last.got # NoFrame) => jb_last.got = jb_last.want

\* the run: s and s+2 inserted, in this order, into a fresh buffer, then at
\* least three get_next calls
LossRun(s) ==
    /\ jb_scn
    /\ jb_ins = <<s, wrapping_add(s, 2)>>
    /\ Len(jb_calls) >= 3

\* what three get_next calls do over a one-frame hole
LossOutcome(s) ==
    /\ jb_calls[1].got = s
    /\ jb_calls[2].got = NoFrame
    /\ jb_calls[3].got = wrapping_add(s, 2)
    /\ jb_calls[3].lost_after = jb_calls[1].lost_before + 1

\* C3 as stated: after inserting s and s+2 into a fresh buffer, three
\* consecutive get_next calls yield s, nothing, s+2 and lost grows by 1.
C3_LossCountingAsStated ==
    \A s \in SeqInputs : LossRun(s) => LossOutcome(s)

\* C3 amended: the same holds when the buffer has at least 4 slots and none of
\* the three calls is stopped by the prebuffer gate (level >= target_delay).
C3_LossCounting ==
    \A s \in SeqInputs :
        (LossRun(s) /\ jitter.capacity >= 4 /\ \A i \in 1..3 : ~jb_calls[i].gated)
            => LossOutcome(s)

\* C3 witness: three ungated get_next calls were made over the hole
C3_Witness ==
    \E s \in SeqInputs :
        /\ LossRun(s) /\ jitter.capacity >= 4
        /\ \A i \in 1..3 : ~jb_calls[i].gated

\* the state of a buffer no call is made on
JitterOff ==
    /\ jitter = JitterBufferNew(2, 1)
    /\ jb_ins = <<>>
    /\ jb_calls = <<>>
    /\ jb_scn = TRUE
    /\ jb_last = NoCall
    /\ jb_ngets = 0
    /\ jb_call = NoCall
    /\ jb_run = NoRun
    /\ jb_ncalls = 0

\* the number of occupied slots
Occupied == Cardinality({i \in DOMAIN jitter.slots : jitter.slots[i] # NoFrame})

\* C26: after any sequence of insert, get_next, force_get_next and reset
\* calls the level equals the number of occupied slots.
C26_LevelIsOccupancy == ~jitter.panicked => jitter.level = Occupied

\* only insert and get_next were called since the last reset, something was
\* inserted, and no sequence is near the wrap
NoWrapRun == jb_run.top # -1 /\ jb_run.top < U32 \div 2 /\ ~jb_run.forced

\* C27: after insert and get_next calls since the last reset (no sequence
\* wrap) next_sequence never exceeds one plus the highest sequence accepted,
\* and a frame whose sequence is greater than every sequence inserted so far
\* is never rejected as late.
C27_NextSequenceBounded ==
    (NoWrapRun /\ ~jitter.panicked) =>
        /\ jitter.next_sequence <= jb_run.high + 1
        /\ (jb_call.op = "insert" /\ jb_call.seq > jb_call.top) => jb_call.late_delta = 0

\* the absolute value of the signed distance of the last insert
Behind == IF jb_call.d < 0 THEN -jb_call.d ELSE jb_call.d

\* C28: an insert with signed distance d < 0 and |d| < N/2 is dropped as late
\* (late incremented, false returned, slots, level and received unchanged);
\* one with d < 0 and |d| >= N/2 is stored and counted as received, not late.
C28_LateOrWrapFuture ==
    (jb_call.op = "insert" /\ ~jitter.panicked /\ jb_call.d < 0) =>
        IF Behind < jitter.capacity \div 2
        THEN /\ ~jb_call.ok
             /\ jb_call.late_delta = 1
             /\ jb_call.received_delta = 0
             /\ jb_call.store_same
        ELSE /\ jb_call.ok
             /\ jb_call.late_delta = 0
             /\ jb_call.received_delta = 1
             /\ jitter.slots[BitAnd(jb_call.seq, jitter.mask)] = jb_call.seq

\* C29: for every power-of-two capacity N and any min_delay, after
\* construction and after any calls, min_delay <= target_delay <= N/2, no
\* call aborts, and one insert changes target_delay by at most 1.
C29_TargetDelayBounds ==
    /\ ~jitter.panicked
    /\ jitter.min_delay <= jitter.target_delay
    /\ jitter.target_delay <= jitter.capacity \div 2
    /\ jb_call.op = "insert" => jb_call.target_delta \in {-1, 0, 1}

\* C30: the first frame inserted after construction or reset is accepted
\* whatever its sequence and next_sequence becomes that sequence; reset
\* leaves every slot empty, level 0 and target_delay equal to min_delay, and
\* does not change the received, lost, late and out_of_order counters.
C30_FirstInsertAndReset ==
    /\ (jb_call.op = "insert" /\ jb_call.first) =>
          /\ jb_call.ok
          /\ ~jitter.panicked
          /\ jitter.next_sequence = jb_call.seq
          /\ jitter.slots[BitAnd(jb_call.seq, jitter.mask)] = jb_call.seq
    /\ jb_call.op = "reset" =>
          /\ Occupied = 0
          /\ jitter.level = 0
          /\ jitter.target_delay = jitter.min_delay
          /\ jb_call.counters_same

\* a reset of a buffer whose counters have moved
C30_ResetWitness ==
    /\ jb_call.op = "reset"
    /\ jitter.received >= 2
    /\ jitter.late + jitter.lost >= 1

\* the first insert after a reset carries the highest sequence and is accepted
C30_Witness ==
    /\ jb_call.op = "insert" /\ jb_call.first /\ jb_call.seq = U32 - 1
    /\ jb_call.ok
    /\ jitter.received >= 3

---------------------------------------------------------------------------
(* RingBuffer: a crossbeam ArrayQueue (bounded, linearizable FIFO) and two
   counters.  One producer thread calls push, one consumer thread calls pop
   and try_pop; the queue operation and the counter update of one call are
   two steps. *)

\* bounds of the ring-buffer runs
MaxPushes == 4
MaxPops == 4

\* capacities the ring is constructed with (the unit test uses 4)
RingCapacities == {1, 2, 3}

\* RingBuffer::new
RingBufferNew(capacity) ==
    [queue |-> <<>>, capacity |-> capacity, overflow_count |-> 0, underrun_count |-> 0]

\* RingBuffer::len
len(rb) == Len(rb.queue)

\* ArrayQueue::push: Ok(()) and the frame is appended, or Err(frame) when full
queue_push_overwriting(rb, frame) ==
    IF Len(rb.queue) >= rb.capacity
    THEN [rb |-> [rb EXCEPT !.queue = Append(Tail(@), frame)], ok |-> TRUE]
    ELSE [rb |-> [rb EXCEPT !.queue = Append(@, frame)], ok |-> TRUE]

queue_push(rb, frame) ==
    IF Len(rb.queue) >= rb.capacity
    THEN [rb |-> rb, ok |-> FALSE]
    ELSE [rb |-> [rb EXCEPT !.queue = Append(@, frame)], ok |-> TRUE]

\* ArrayQueue::pop: the oldest frame, or None when empty
queue_pop(rb) ==
    IF rb.queue = <<>>
    THEN [rb |-> rb, frame |-> NoFrame]
    ELSE [rb |-> [rb EXCEPT !.queue = Tail(@)], frame |-> Head(rb.queue)]

RingInit ==
    /\ \E c \in RingCapacities : ring = RingBufferNew(c)
    /\ rb_pc = [producer |-> "idle", consumer |-> "idle"]
    /\ rb_pushed = <<>>
    /\ rb_popped = <<>>
    /\ rb_calls = [push |-> 0, push_failed |-> 0, pop |-> 0]
    /\ rb_last = NoCall

RingOff ==
    /\ ring = RingBufferNew(1)
    /\ rb_pc = [producer |-> "idle", consumer |-> "idle"]
    /\ rb_pushed = <<>>
    /\ rb_popped = <<>>
    /\ rb_calls = [push |-> 0, push_failed |-> 0, pop |-> 0]
    /\ rb_last = NoCall

\* RingBuffer::push, first step: self.queue.push(frame).  The frame pushed by
\* the n-th call carries sequence n.
Push ==
    /\ Idle("ring")
    /\ rb_pc.producer = "idle"
    /\ rb_calls.push < MaxPushes
    /\ LET frame == rb_calls.push + 1
           r == queue_push(ring, frame)
       IN  /\ ring' = r.rb
           /\ rb_pushed' = IF r.ok THEN Append(rb_pushed, frame) ELSE rb_pushed
           /\ rb_calls' = [rb_calls EXCEPT !.push = @ + 1,
                                           !.push_failed = IF r.ok THEN @ ELSE @ + 1]
           /\ rb_pc' = [rb_pc EXCEPT !.producer = IF r.ok THEN "idle" ELSE "overflow"]
           /\ rb_last' = [op |-> "push", ok |-> r.ok, before |-> ring.queue]
           /\ UNCHANGED rb_popped

\* RingBuffer::push, the Err arm: overflow_count.fetch_add(1), return false
PushOverflow ==
    /\ Idle("ring")
    /\ rb_pc.producer = "overflow"
    /\ ring' = [ring EXCEPT !.overflow_count = @ + 1]
    /\ rb_pc' = [rb_pc EXCEPT !.producer = "idle"]
    /\ UNCHANGED <<rb_pushed, rb_popped, rb_calls, rb_last>>

\* RingBuffer::pop, first step: self.queue.pop()
Pop ==
    /\ Idle("ring")
    /\ rb_pc.consumer = "idle"
    /\ rb_calls.pop < MaxPops
    /\ LET r == queue_pop(ring)
       IN  /\ ring' = r.rb
           /\ rb_popped' = IF r.frame # NoFrame THEN Append(rb_popped, r.frame) ELSE rb_popped
           /\ rb_pc' = [rb_pc EXCEPT !.consumer = IF r.frame # NoFrame THEN "idle" ELSE "underrun"]
           /\ rb_last' = [op |-> "pop", ok |-> r.frame # NoFrame, before |-> ring.queue]
           /\ rb_calls' = [rb_calls EXCEPT !.pop = @ + 1]
           /\ UNCHANGED rb_pushed

\* RingBuffer::pop, the None arm: underrun_count.fetch_add(1), return None
PopUnderrun ==
    /\ Idle("ring")
    /\ rb_pc.consumer = "underrun"
    /\ ring' = [ring EXCEPT !.underrun_count = @ + 1]
    /\ rb_pc' = [rb_pc EXCEPT !.consumer = "idle"]
    /\ UNCHANGED <<rb_pushed, rb_popped, rb_calls, rb_last>>

\* RingBuffer::try_pop: self.queue.pop() and nothing else
TryPop ==
    /\ Idle("ring")
    /\ rb_pc.consumer = "idle"
    /\ rb_calls.pop < MaxPops
    /\ LET r == queue_pop(ring)
       IN  /\ ring' = r.rb
           /\ rb_popped' = IF r.frame # NoFrame THEN Append(rb_popped, r.frame) ELSE rb_popped
           /\ rb_last' = [op |-> "try_pop", ok |-> r.frame # NoFrame, before |-> ring.queue]
           /\ rb_calls' = [rb_calls EXCEPT !.pop = @ + 1]
           /\ UNCHANGED <<rb_pushed, rb_pc>>

RingNext ==
    \/ Push
    \/ PushOverflow
    \/ Pop
    \/ PopUnderrun
    \/ TryPop

---------------------------------------------------------------------------
(* Properties of the RingBuffer *)

\* C4: under any interleaving of one producer's push calls and one consumer's
\* pop / try_pop calls on a ring of capacity C: 0 <= len <= C; len is the
\* number of successful pushes minus the number of successful pops;
\* overflow_count is the number of failed pushes (once the push has returned);
\* a push fails exactly when the ring already holds C frames and then leaves
\* the queue as it was; frames are popped in the order they were pushed.
C4_RingFifo ==
    /\ 0 <= len(ring) /\ len(ring) <= ring.capacity
    /\ len(ring) = Len(rb_pushed) - Len(rb_popped)
    /\ rb_pc.producer = "idle" => ring.overflow_count = rb_calls.push_failed
    /\ rb_last.op = "push" =>
         /\ rb_last.ok <=> Len(rb_last.before) < ring.capacity
         /\ ~rb_last.ok => ring.queue = rb_last.before
    /\ Len(rb_popped) <= Len(rb_pushed)
    /\ \A i \in 1..Len(rb_popped) : rb_popped[i] = rb_pushed[i]
    /\ \A i \in 1..len(ring) : ring.queue[i] = rb_pushed[Len(rb_popped) + i]

\* C4 witness: a push has failed on a full ring, frames pushed before it have
\* been popped and others are still queued
C4_Witness ==
    /\ rb_calls.push_failed >= 1
    /\ ring.overflow_count >= 1
    /\ Len(rb_popped) >= 2
    /\ len(ring) >= 1
    /\ ring.capacity >= 2

\* the pop and try_pop calls that have returned nothing
EmptyPops == rb_calls.pop - Len(rb_popped)

\* C23: every pop attempt on an empty ring, through pop or through try_pop,
\* increments underrun_count by exactly 1: between two calls of the consumer
\* underrun_count equals the number of pop attempts that returned nothing.
C23_UnderrunCounted ==
    rb_pc.consumer = "idle" => ring.underrun_count = EmptyPops

---------------------------------------------------------------------------
(* TrackManager: a table of tracks keyed by a u8 id, the id counter, the
   solo-active flag and the event bus.  In this part every call is one step
   (calls made one after the other). *)

\* the number of values of a u8
U8 == 256

\* the table's capacity, scaled down (constants::MAX_TRACKS)
MAX_TRACKS == 3

\* bound on the number of events published in a run
MaxEvents == 4

\* the ids callers provide; None lets the manager assign one
None == -1
TrackIdInputs == {0, 1}

\* device ids of the track configurations
DeviceIds == {"devA", "devB"}

\* Track::new
TrackNew(id, config) ==
    [id |-> id, device_id |-> config.device_id, state |-> "Stopped",
     muted |-> FALSE, solo |-> FALSE]

\* TrackManager::new
TrackManagerNew ==
    [tracks |-> <<>>, next_id |-> 0, events |-> <<>>,
     max_tracks |-> MAX_TRACKS, solo_active |-> FALSE]

\* DashMap::contains_key
contains_key(tm, id) == id \in DOMAIN tm.tracks

\* DashMap::insert
map_insert(map, key, value) ==
    [k \in (DOMAIN map) \cup {key} |-> IF k = key THEN value ELSE map[k]]

\* DashMap::remove
map_remove(map, key) == [k \in (DOMAIN map) \ {key} |-> map[k]]

\* event_tx.send
send(tm, event) == [tm EXCEPT !.events = Append(@, event)]

\* TrackManager::update_solo_state
update_solo_state(tm) ==
    [tm EXCEPT !.solo_active = \E id \in DOMAIN tm.tracks : tm.tracks[id].solo]

\* create_track that replaces the track of an id already present
create_track_replacing(tm, config) ==
    IF Cardinality(DOMAIN tm.tracks) >= tm.max_tracks
    THEN [tm |-> tm, result |-> <<"MaxTracksReached", tm.max_tracks>>]
    ELSE LET id == IF config.track_id = None THEN tm.next_id ELSE config.track_id
             tm1 == IF config.track_id = None
                    THEN [tm EXCEPT !.next_id = (@ + 1) % U8]
                    ELSE tm
         IN  [tm |-> send([tm1 EXCEPT !.tracks = map_insert(@, id, TrackNew(id, config))],
                          <<"Created", id>>),
              result |-> IF contains_key(tm1, id) THEN <<"AlreadyExists", id>>
                         ELSE <<"Ok", id>>]

\* TrackManager::create_track
create_track(tm, config) ==
    IF Cardinality(DOMAIN tm.tracks) >= tm.max_tracks
    THEN [tm |-> tm, result |-> <<"MaxTracksReached", tm.max_tracks>>]
    ELSE LET id == IF config.track_id = None THEN tm.next_id ELSE config.track_id
             tm1 == IF config.track_id = None
                    THEN [tm EXCEPT !.next_id = (@ + 1) % U8]
                    ELSE tm
         IN  IF contains_key(tm1, id)
             THEN [tm |-> tm1, result |-> <<"AlreadyExists", id>>]
             ELSE [tm |-> send([tm1 EXCEPT !.tracks = map_insert(@, id, TrackNew(id, config))],
                               <<"Created", id>>),
                   result |-> <<"Ok", id>>]

\* remove_track that forgets to recompute the solo-active flag
remove_track_keeping_solo(tm, track_id) ==
    IF ~contains_key(tm, track_id)
    THEN [tm |-> tm, result |-> <<"NotFound", track_id>>]
    ELSE [tm |-> send([tm EXCEPT !.tracks = map_remove(@, track_id)],
                      <<"Removed", track_id>>),
          result |-> <<"Ok", track_id>>]

\* TrackManager::remove_track
remove_track(tm, track_id) ==
    IF ~contains_key(tm, track_id)
    THEN [tm |-> tm, result |-> <<"NotFound", track_id>>]
    ELSE [tm |-> update_solo_state(
                    send([tm EXCEPT !.tracks = map_remove(@, track_id)], <<"Removed", track_id>>)),
          result |-> <<"Ok", track_id>>]

\* Track::start that does not leave the Error state
track_start_keeping_error(track) ==
    IF track.state = "Error" THEN track ELSE [track EXCEPT !.state = "Running"]

\* Track::start
track_start(track) == [track EXCEPT !.state = "Running"]

\* Track::stop
track_stop(track) == [track EXCEPT !.state = "Stopped"]

\* Track::set_error
track_set_error(track) == [track EXCEPT !.state = "Error"]

\* TrackManager::get_track_mut followed by Track::set_error on the RefMut
set_error(tm, track_id) ==
    IF ~contains_key(tm, track_id)
    THEN [tm |-> tm, result |-> <<"NotFound", track_id>>]
    ELSE [tm |-> [tm EXCEPT !.tracks[track_id] = track_set_error(@)],
          result |-> <<"Ok", track_id>>]

\* TrackManager::start_track
start_track(tm, track_id) ==
    IF ~contains_key(tm, track_id)
    THEN [tm |-> tm, result |-> <<"NotFound", track_id>>]
    ELSE [tm |-> send([tm EXCEPT !.tracks[track_id] = track_start(@)], <<"Started", track_id>>),
          result |-> <<"Ok", track_id>>]

\* TrackManager::stop_track
stop_track(tm, track_id) ==
    IF ~contains_key(tm, track_id)
    THEN [tm |-> tm, result |-> <<"NotFound", track_id>>]
    ELSE [tm |-> send([tm EXCEPT !.tracks[track_id] = track_stop(@)], <<"Stopped", track_id>>),
          result |-> <<"Ok", track_id>>]

\* Option<String>::None of TrackConfigUpdate.device_id
NoDevice == "none"

\* Track::update_config, of which the device_id is kept here
update_config(track, update) ==
    IF update.device_id # NoDevice THEN [track EXCEPT !.device_id = update.device_id]
    ELSE track

\* the events of an update_track, with ConfigUpdated before DeviceChanged
update_track_events_config_first(track_id, old_device_id, new_device_id) ==
    IF new_device_id # NoDevice /\ old_device_id # new_device_id
    THEN << <<"ConfigUpdated", track_id>>,
            <<"DeviceChanged", track_id, old_device_id, new_device_id>> >>
    ELSE << <<"ConfigUpdated", track_id>> >>

\* the events TrackManager::update_track publishes, in the order of its sends
update_track_events(track_id, old_device_id, new_device_id) ==
    IF new_device_id # NoDevice /\ old_device_id # new_device_id
    THEN << <<"DeviceChanged", track_id, old_device_id, new_device_id>>,
            <<"ConfigUpdated", track_id>> >>
    ELSE << <<"ConfigUpdated", track_id>> >>

\* event_tx.send of each event of a sequence, in order
RECURSIVE send_all(_, _)
send_all(tm, events) ==
    IF events = <<>> THEN tm ELSE send_all(send(tm, Head(events)), Tail(events))

\* TrackManager::update_track
update_track(tm, track_id, update) ==
    IF ~contains_key(tm, track_id)
    THEN [tm |-> tm, result |-> <<"NotFound", track_id>>]
    ELSE LET old_device_id == tm.tracks[track_id].device_id
             new_device_id == update.device_id
             tm1 == [tm EXCEPT !.tracks[track_id] = update_config(@, update)]
         IN  [tm |-> send_all(tm1, update_track_events(track_id, old_device_id, new_device_id)),
              result |-> <<"Ok", track_id>>]

\* TrackManager::set_muted
set_muted(tm, track_id, muted) ==
    IF ~contains_key(tm, track_id)
    THEN [tm |-> tm, result |-> <<"NotFound", track_id>>]
    ELSE [tm |-> [tm EXCEPT !.tracks[track_id].muted = muted], result |-> <<"Ok", track_id>>]

\* TrackManager::set_solo
set_solo(tm, track_id, solo) ==
    IF ~contains_key(tm, track_id)
    THEN [tm |-> tm, result |-> <<"NotFound", track_id>>]
    ELSE [tm |-> update_solo_state([tm EXCEPT !.tracks[track_id].solo = solo]),
          result |-> <<"Ok", track_id>>]

\* TrackManager::should_output
should_output(tm, track_id) ==
    IF contains_key(tm, track_id)
    THEN IF tm.tracks[track_id].muted THEN FALSE
         ELSE IF tm.solo_active THEN tm.tracks[track_id].solo
         ELSE TRUE
    ELSE FALSE

TracksInit ==
    /\ manager = TrackManagerNew
    /\ tm_last = NoCall
    /\ tm_call = NoCall

TracksOff ==
    /\ manager = TrackManagerNew
    /\ tm_last = NoCall
    /\ tm_call = NoCall

\* a call returns: the manager is replaced, the call is recorded
Returns(op, r) ==
    /\ Len(r.tm.events) <= MaxEvents
    /\ manager' = r.tm
    /\ tm_last' = [op |-> op, result |-> r.result]
    /\ UNCHANGED tm_call

CreateTrack ==
    /\ Idle("tracks")
    /\ \E track_id \in TrackIdInputs \cup {None} : \E device_id \in DeviceIds :
         Returns("create_track",
                 create_track(manager, [track_id |-> track_id, device_id |-> device_id]))

RemoveTrack ==
    /\ Idle("tracks")
    /\ \E track_id \in TrackIdInputs : Returns("remove_track", remove_track(manager, track_id))

SetMuted ==
    /\ Idle("tracks")
    /\ \E track_id \in TrackIdInputs : \E muted \in BOOLEAN :
         Returns("set_muted", set_muted(manager, track_id, muted))

SetSolo ==
    /\ Idle("tracks")
    /\ \E track_id \in TrackIdInputs : \E solo \in BOOLEAN :
         Returns("set_solo", set_solo(manager, track_id, solo))

TracksNext ==
    \/ CreateTrack
    \/ RemoveTrack
    \/ SetMuted
    \/ SetSolo

---------------------------------------------------------------------------
(* Properties of the TrackManager *)

\* some track of the table has its solo flag set
AnySolo == \E id \in DOMAIN manager.tracks : manager.tracks[id].solo

\* C5: after any sequence of create_track, remove_track, set_muted and
\* set_solo calls, should_output(id) is true exactly when track id exists, is
\* not muted, and either no existing track is soloed or id itself is soloed.
C5_SoloSemantics ==
    \A id \in 0..(U8 - 1) :
        should_output(manager, id) <=>
            /\ id \in DOMAIN manager.tracks
            /\ ~manager.tracks[id].muted
            /\ (~AnySolo \/ manager.tracks[id].solo)

\* C5 witness: the only soloed track has just been removed and the two tracks
\* that are left output again
C5_Witness ==
    /\ tm_last.op = "remove_track" /\ tm_last.result[1] = "Ok"
    /\ Cardinality(DOMAIN manager.tracks) = 2
    /\ ~AnySolo
    /\ \E id \in DOMAIN manager.tracks : manager.tracks[id].muted
    /\ \E id \in DOMAIN manager.tracks : should_output(manager, id)

---------------------------------------------------------------------------
(* TrackManager, call by call: every operation of the manager, each call one
   step.  The subscribers read the bus between two calls, so the events a
   call published are recorded with the call and the bus is empty again when
   the next call starts. *)

\* the ids the callers of this part provide
CallTrackIds == {0, 1}

\* bound on the id counter
MaxNextId == 3

Published(op, args, r) ==
    /\ r.tm.next_id <= MaxNextId
    /\ manager' = [r.tm EXCEPT !.events = <<>>]
    /\ tm_call' = [op |-> op, args |-> args, result |-> r.result,
                   published |-> r.tm.events,
                   full |-> Cardinality(DOMAIN manager.tracks) >= manager.max_tracks,
                   present |-> args[1] \in DOMAIN manager.tracks,
                   device_id |-> IF args[1] \in DOMAIN manager.tracks
                                 THEN manager.tracks[args[1]].device_id ELSE NoDevice,
                   in_use |-> r.result[2] \in DOMAIN manager.tracks,
                   table_changed |-> r.tm.tracks # manager.tracks,
                   solo_changed |-> r.tm.solo_active # manager.solo_active]
    /\ UNCHANGED tm_last

CallCreateTrack ==
    /\ Idle("calls")
    /\ \E track_id \in CallTrackIds \cup {None} : \E device_id \in DeviceIds :
         Published("create_track", <<track_id, device_id>>,
                   create_track(manager, [track_id |-> track_id, device_id |-> device_id]))

CallRemoveTrack ==
    /\ Idle("calls")
    /\ \E track_id \in CallTrackIds :
         Published("remove_track", <<track_id>>, remove_track(manager, track_id))

CallStartTrack ==
    /\ Idle("calls")
    /\ \E track_id \in CallTrackIds :
         Published("start_track", <<track_id>>, start_track(manager, track_id))

CallStopTrack ==
    /\ Idle("calls")
    /\ \E track_id \in CallTrackIds :
         Published("stop_track", <<track_id>>, stop_track(manager, track_id))

CallUpdateTrack ==
    /\ Idle("calls")
    /\ \E track_id \in CallTrackIds : \E device_id \in DeviceIds \cup {NoDevice} :
         Published("update_track", <<track_id, device_id>>,
                   update_track(manager, track_id, [device_id |-> device_id]))

CallSetMuted ==
    /\ Idle("calls")
    /\ \E track_id \in CallTrackIds : \E muted \in BOOLEAN :
         Published("set_muted", <<track_id, muted>>, set_muted(manager, track_id, muted))

CallSetSolo ==
    /\ Idle("calls")
    /\ \E track_id \in CallTrackIds : \E solo \in BOOLEAN :
         Published("set_solo", <<track_id, solo>>, set_solo(manager, track_id, solo))

CallsNext ==
    \/ CallCreateTrack
    \/ CallRemoveTrack
    \/ CallStartTrack
    \/ CallStopTrack
    \/ CallUpdateTrack
    \/ CallSetMuted
    \/ CallSetSolo


---------------------------------------------------------------------------
(* The life of a track, call by call: create_track, start_track, stop_track,
   remove_track, and set_error on the track get_track_mut hands out when a
   stream fault is reported.  The state the track had before the call is
   recorded with the call. *)

\* TrackState of track id, "none" without the track
StateOf(tm, track_id) ==
    IF track_id \in DOMAIN tm.tracks THEN tm.tracks[track_id].state ELSE "none"

LifeCall(op, track_id, r) ==
    /\ manager' = [r.tm EXCEPT !.events = <<>>]
    /\ tm_call' = [op |-> op, args |-> <<track_id>>, result |-> r.result,
                   published |-> r.tm.events,
                   present |-> track_id \in DOMAIN manager.tracks,
                   state |-> StateOf(manager, track_id)]
    /\ UNCHANGED tm_last

LifeCreateTrack ==
    /\ Idle("calls")
    /\ \E track_id \in CallTrackIds :
         LifeCall("create_track", track_id,
                  create_track(manager, [track_id |-> track_id, device_id |-> "devA"]))

LifeRemoveTrack ==
    /\ Idle("calls")
    /\ \E track_id \in CallTrackIds :
         LifeCall("remove_track", track_id, remove_track(manager, track_id))

LifeStartTrack ==
    /\ Idle("calls")
    /\ \E track_id \in CallTrackIds :
         LifeCall("start_track", track_id, start_track(manager, track_id))

LifeStopTrack ==
    /\ Idle("calls")
    /\ \E track_id \in CallTrackIds :
         LifeCall("stop_track", track_id, stop_track(manager, track_id))

LifeSetError ==
    /\ Idle("calls")
    /\ \E track_id \in CallTrackIds :
         LifeCall("set_error", track_id, set_error(manager, track_id))

LifeNext ==
    \/ LifeCreateTrack
    \/ LifeRemoveTrack
    \/ LifeStartTrack
    \/ LifeStopTrack
    \/ LifeSetError

---------------------------------------------------------------------------
(* Properties of the life of a track *)

\* the states a track can be observed in between two calls
ObservableStates == {"Stopped", "Running", "Error"}

\* C34: start_track on an existing track in any state (Stopped, Running or
\* Error) leaves it Running and publishes Started(id), so a track in the Error
\* state can be restarted; stop_track leaves it Stopped and publishes
\* Stopped(id); between two calls of the manager a track is only ever
\* Stopped, Running or Error.
C34_StartStopAnyState ==
    /\ (tm_call.op = "start_track" /\ tm_call.present) =>
          /\ StateOf(manager, tm_call.args[1]) = "Running"
          /\ tm_call.published = <<<<"Started", tm_call.args[1]>>>>
          /\ tm_call.result = <<"Ok", tm_call.args[1]>>
    /\ (tm_call.op = "stop_track" /\ tm_call.present) =>
          /\ StateOf(manager, tm_call.args[1]) = "Stopped"
          /\ tm_call.published = <<<<"Stopped", tm_call.args[1]>>>>
          /\ tm_call.result = <<"Ok", tm_call.args[1]>>
    /\ \A id \in DOMAIN manager.tracks : manager.tracks[id].state \in ObservableStates

\* C34 witness: a track in the Error state was started again and is Running
C34_Witness ==
    /\ tm_call.op = "start_track" /\ tm_call.state = "Error"
    /\ StateOf(manager, tm_call.args[1]) = "Running"

\* C34 witness: a track in the Error state was stopped and another is Running
C34_StopWitness ==
    /\ tm_call.op = "stop_track" /\ tm_call.state = "Error"
    /\ StateOf(manager, tm_call.args[1]) = "Stopped"
    /\ \E id \in DOMAIN manager.tracks : manager.tracks[id].state = "Running"

\* C35: whenever a track enters the Error state, the manager publishes
\* Error(id, msg) for it.
C35_ErrorPublished ==
    (tm_call.op = "set_error" /\ tm_call.present) =>
        \E i \in 1..Len(tm_call.published) :
            /\ tm_call.published[i][1] = "Error"
            /\ tm_call.published[i][2] = tm_call.args[1]

---------------------------------------------------------------------------
(* Properties of the TrackManager's calls *)

\* the last call was create_track with an id the caller provided
CreatedWithId == tm_call # NoCall /\ tm_call.op = "create_track" /\ tm_call.args[1] # None

\* the last call was create_track without an id
CreatedWithoutId == tm_call # NoCall /\ tm_call.op = "create_track" /\ tm_call.args[1] = None

\* the last call changed nothing in the table and published nothing
NothingDone ==
    /\ ~tm_call.table_changed
    /\ ~tm_call.solo_changed
    /\ tm_call.published = <<>>

\* C15 as stated: create_track with a caller-provided id that is already
\* present returns AlreadyExists, leaves the table unchanged and publishes
\* no event.
C15_AlreadyExistsAsStated ==
    (CreatedWithId /\ tm_call.present)
        => (tm_call.result = <<"AlreadyExists", tm_call.args[1]>> /\ NothingDone)

\* C15: create_track with a caller-provided id that is already present
\* leaves the table unchanged and publishes no event; it returns
\* AlreadyExists when the table holds fewer than MAX_TRACKS tracks and
\* MaxTracksReached when the table is full.
C15_AlreadyExists ==
    (CreatedWithId /\ tm_call.present)
        => /\ NothingDone
           /\ tm_call.result = IF tm_call.full
                               THEN <<"MaxTracksReached", manager.max_tracks>>
                               ELSE <<"AlreadyExists", tm_call.args[1]>>

\* a colliding create_track on a table that is not full, the existing track
\* being other than a fresh one (running, muted, soloed)
C15_Witness ==
    /\ CreatedWithId /\ tm_call.present /\ ~tm_call.full
    /\ tm_call.result[1] = "AlreadyExists"
    /\ LET track == manager.tracks[tm_call.args[1]]
       IN  track.state = "Running" /\ track.muted /\ track.solo
                /\ track.device_id # tm_call.args[2]

\* C17: create_track without a caller-provided id succeeds and returns an
\* id that was not in use whenever the table holds fewer than MAX_TRACKS
\* tracks, after any sequence of create_track and remove_track calls.
C17_AutoIdSucceeds ==
    (CreatedWithoutId /\ ~tm_call.full)
        => (tm_call.result[1] = "Ok" /\ ~tm_call.in_use)

\* the update of the last call carries a device_id other than the track's
DeviceChange ==
    /\ tm_call.op = "update_track"
    /\ tm_call.args[2] # NoDevice
    /\ tm_call.args[2] # tm_call.device_id

\* C18: every successful mutating operation (update_track with a device
\* change aside) publishes exactly one event, and a failing operation
\* publishes none.
C18_OneEventPerMutation ==
    tm_call # NoCall =>
        IF tm_call.result[1] = "Ok"
        THEN DeviceChange \/ Len(tm_call.published) = 1
        ELSE tm_call.published = <<>>

---------------------------------------------------------------------------
(* TrackManager under concurrent callers: each call is a sequence of steps,
   one per access to the shared state (the DashMap, the id counter, the
   solo-active flag, the event bus), and the steps of the threads interleave.
   A Ref or RefMut a call holds keeps the lock of the shard of its key. *)

Threads == {1, 2}

\* the id the concurrent callers of create_track and update_track provide
ThreadTrackIds == {0}

\* the ids the concurrent callers of set_solo and remove_track provide
SoloTrackIds == {0, 1}

\* bounds on the number of concurrent calls of each operation
MaxCreates == MAX_TRACKS + 1
MaxRemoves == 1
MaxSetSolos == 2
MaxUpdates == 1

\* no call was started yet
NoneStarted ==
    [create_track |-> 0, remove_track |-> 0, set_solo |-> 0, update_track |-> 0,
     start_all |-> 0, start_track |-> 0]

\* a thread that is in no call
IdleFrame ==
    [op |-> "idle", pc |-> "idle", track_id |-> None, device_id |-> NoDevice,
     old_device_id |-> NoDevice, len |-> 0, solo |-> FALSE, any_solo |-> FALSE,
     pending |-> <<>>, sent |-> <<>>, visited |-> {}, results |-> <<>>]

\* DashMap::determine_shard
determine_shard(key) == IF colliding THEN 0 ELSE key

\* thread t holds a Ref of set_solo's tracks.get
HoldsRef(t) == threads[t].op = "set_solo" /\ threads[t].pc \in {"flag", "any", "store"}

\* thread t holds the RefMut of update_track's tracks.get_mut
HoldsRefMut(t) == threads[t].op = "update_track" /\ threads[t].pc = "send"

\* RwLock::read of the shard of key succeeds for thread t
CanRead(t, key) ==
    \A u \in Threads \ {t} :
        ~(HoldsRefMut(u) /\ determine_shard(threads[u].track_id) = determine_shard(key))

\* RwLock::write of the shard of key succeeds for thread t
CanWrite(t, key) ==
    /\ CanRead(t, key)
    /\ \A u \in Threads \ {t} :
          ~(HoldsRef(u) /\ determine_shard(threads[u].track_id) = determine_shard(key))

\* RwLock::read of every shard succeeds for thread t (DashMap::len, DashMap::iter)
CanReadAll(t) == \A u \in Threads \ {t} : ~HoldsRefMut(u)

\* the manager after create_track of ids 0 and 1
TwoTracks ==
    create_track(create_track(TrackManagerNew, [track_id |-> 0, device_id |-> "devA"]).tm,
                 [track_id |-> 1, device_id |-> "devA"]).tm

\* the calls start on a table of two tracks
SoloInit ==
    /\ manager = TwoTracks
    /\ tm_last = NoCall
    /\ tm_call = NoCall
    /\ threads = [t \in Threads |-> IdleFrame]
    /\ th_started = NoneStarted
    /\ th_last = NoCall
    /\ colliding \in BOOLEAN

ThreadsInit ==
    /\ TracksInit
    /\ threads = [t \in Threads |-> IdleFrame]
    /\ th_started = NoneStarted
    /\ th_last = NoCall
    /\ colliding \in BOOLEAN

ThreadsOff ==
    /\ threads = [t \in Threads |-> IdleFrame]
    /\ th_started = NoneStarted
    /\ th_last = NoCall
    /\ colliding = FALSE

\* thread t enters a call of op
Begins(t, op, max) ==
    /\ threads[t].pc = "idle"
    /\ th_started[op] < max
    /\ th_started' = [th_started EXCEPT ![op] = @ + 1]

\* thread t goes on in its call
Continues(t, frame) ==
    /\ threads' = [threads EXCEPT ![t] = frame]
    /\ UNCHANGED th_last

\* the call of thread t returns
ThreadReturns(t, frame, result) ==
    /\ threads' = [threads EXCEPT ![t] = IdleFrame]
    /\ th_last' = [op |-> frame.op, thread |-> t, track_id |-> frame.track_id,
                   device_id |-> frame.device_id, old_device_id |-> frame.old_device_id,
                   len |-> frame.len, sent |-> frame.sent, result |-> result]

\* create_track: `if self.tracks.len() >= self.max_tracks`
CreateLen(t) ==
    /\ Idle("threads")
    /\ Begins(t, "create_track", MaxCreates)
    /\ CanReadAll(t)
    /\ \E track_id \in ThreadTrackIds \cup {None} :
         LET frame == [IdleFrame EXCEPT !.op = "create_track", !.track_id = track_id,
                                        !.device_id = "devA",
                                        !.len = Cardinality(DOMAIN manager.tracks),
                                        !.pc = IF track_id = None THEN "id" ELSE "contains"]
         IN  IF Cardinality(DOMAIN manager.tracks) >= manager.max_tracks
             THEN ThreadReturns(t, frame, <<"MaxTracksReached", manager.max_tracks>>)
             ELSE Continues(t, frame)
    /\ UNCHANGED <<manager, tm_last, tm_call, colliding>>

\* create_track: `self.next_id.fetch_add(1, Ordering::SeqCst)`
CreateId(t) ==
    /\ Idle("threads")
    /\ threads[t].op = "create_track" /\ threads[t].pc = "id"
    /\ manager' = [manager EXCEPT !.next_id = (@ + 1) % U8]
    /\ Continues(t, [threads[t] EXCEPT !.track_id = manager.next_id, !.pc = "contains"])
    /\ UNCHANGED <<tm_last, tm_call, th_started, colliding>>

\* create_track: `if self.tracks.contains_key(&id)`
CreateContains(t) ==
    /\ Idle("threads")
    /\ threads[t].op = "create_track" /\ threads[t].pc = "contains"
    /\ CanRead(t, threads[t].track_id)
    /\ IF contains_key(manager, threads[t].track_id)
       THEN ThreadReturns(t, threads[t], <<"AlreadyExists", threads[t].track_id>>)
       ELSE Continues(t, [threads[t] EXCEPT !.pc = "insert"])
    /\ UNCHANGED <<manager, tm_last, tm_call, th_started, colliding>>

\* create_track: `self.tracks.insert(id, track)`
CreateInsert(t) ==
    /\ Idle("threads")
    /\ threads[t].op = "create_track" /\ threads[t].pc = "insert"
    /\ CanWrite(t, threads[t].track_id)
    /\ manager' = [manager EXCEPT !.tracks = map_insert(@, threads[t].track_id,
                                                 TrackNew(threads[t].track_id, threads[t]))]
    /\ Continues(t, [threads[t] EXCEPT !.pc = "send"])
    /\ UNCHANGED <<tm_last, tm_call, th_started, colliding>>

\* create_track: `self.event_tx.send(TrackEvent::Created(id))`, `Ok(id)`
CreateSend(t) ==
    /\ Idle("threads")
    /\ threads[t].op = "create_track" /\ threads[t].pc = "send"
    /\ manager' = send(manager, <<"Created", threads[t].track_id>>)
    /\ ThreadReturns(t, [threads[t] EXCEPT !.sent = <<Len(manager.events) + 1>>],
                     <<"Ok", threads[t].track_id>>)
    /\ UNCHANGED <<tm_last, tm_call, th_started, colliding>>

\* remove_track: `self.tracks.remove(&track_id).ok_or(NotFound)?`
RemoveRemove(t) ==
    /\ Idle("threads")
    /\ Begins(t, "remove_track", MaxRemoves)
    /\ \E track_id \in SoloTrackIds :
         LET frame == [IdleFrame EXCEPT !.op = "remove_track", !.track_id = track_id,
                                        !.pc = "send"]
         IN  /\ CanWrite(t, track_id)
             /\ IF contains_key(manager, track_id)
                THEN /\ manager' = [manager EXCEPT !.tracks = map_remove(@, track_id)]
                     /\ Continues(t, frame)
                ELSE /\ UNCHANGED manager
                     /\ ThreadReturns(t, frame, <<"NotFound", track_id>>)
    /\ UNCHANGED <<tm_last, tm_call, colliding>>

\* remove_track: `self.event_tx.send(TrackEvent::Removed(track_id))`
RemoveSend(t) ==
    /\ Idle("threads")
    /\ threads[t].op = "remove_track" /\ threads[t].pc = "send"
    /\ manager' = send(manager, <<"Removed", threads[t].track_id>>)
    /\ Continues(t, [threads[t] EXCEPT !.pc = "any", !.sent = <<Len(manager.events) + 1>>])
    /\ UNCHANGED <<tm_last, tm_call, th_started, colliding>>

\* update_solo_state: `self.tracks.iter().any(|entry| entry.is_solo())`
AnySoloStep(t, op) ==
    /\ Idle("threads")
    /\ threads[t].op = op /\ threads[t].pc = "any"
    /\ CanReadAll(t)
    /\ Continues(t, [threads[t] EXCEPT !.pc = "store",
                                       !.any_solo = update_solo_state(manager).solo_active])
    /\ UNCHANGED <<manager, tm_last, tm_call, th_started, colliding>>

\* update_solo_state: `self.solo_active.store(any_solo, Ordering::Relaxed)`
StoreSoloStep(t, op) ==
    /\ Idle("threads")
    /\ threads[t].op = op /\ threads[t].pc = "store"
    /\ manager' = [manager EXCEPT !.solo_active = threads[t].any_solo]
    /\ ThreadReturns(t, threads[t], <<"Ok", threads[t].track_id>>)
    /\ UNCHANGED <<tm_last, tm_call, th_started, colliding>>

\* remove_track: update_solo_state, the iteration
RemoveAny(t) == AnySoloStep(t, "remove_track")

\* remove_track: update_solo_state, the store; `Ok(track)`
RemoveStore(t) == StoreSoloStep(t, "remove_track")

\* set_solo: `self.tracks.get(&track_id).ok_or(NotFound)?`
SoloGet(t) ==
    /\ Idle("threads")
    /\ Begins(t, "set_solo", MaxSetSolos)
    /\ \E track_id \in SoloTrackIds : \E solo \in BOOLEAN :
         LET frame == [IdleFrame EXCEPT !.op = "set_solo", !.track_id = track_id,
                                        !.solo = solo, !.pc = "flag"]
         IN  /\ CanRead(t, track_id)
             /\ IF contains_key(manager, track_id)
                THEN Continues(t, frame)
                ELSE ThreadReturns(t, frame, <<"NotFound", track_id>>)
    /\ UNCHANGED <<manager, tm_last, tm_call, colliding>>

\* set_solo: `track.set_solo(solo)`
SoloFlag(t) ==
    /\ Idle("threads")
    /\ threads[t].op = "set_solo" /\ threads[t].pc = "flag"
    /\ manager' = [manager EXCEPT !.tracks[threads[t].track_id].solo = threads[t].solo]
    /\ Continues(t, [threads[t] EXCEPT !.pc = "any"])
    /\ UNCHANGED <<tm_last, tm_call, th_started, colliding>>

\* set_solo: update_solo_state, the iteration
SoloAny(t) == AnySoloStep(t, "set_solo")

\* set_solo: update_solo_state, the store; `Ok(())`
SoloStore(t) == StoreSoloStep(t, "set_solo")

\* update_track: `self.tracks.get_mut(&track_id).ok_or(NotFound)?`, then
\* `track.update_config(&update)?` under the RefMut
UpdateGetMut(t) ==
    /\ Idle("threads")
    /\ Begins(t, "update_track", MaxUpdates)
    /\ \E track_id \in ThreadTrackIds : \E device_id \in {"devA", "devB", NoDevice} :
         LET frame == [IdleFrame EXCEPT !.op = "update_track", !.track_id = track_id,
                                        !.device_id = device_id, !.pc = "send"]
         IN  /\ CanWrite(t, track_id)
             /\ IF contains_key(manager, track_id)
                THEN /\ manager' = [manager EXCEPT !.tracks[track_id] =
                                        update_config(@, [device_id |-> device_id])]
                     /\ Continues(t, [frame EXCEPT
                                        !.old_device_id = manager.tracks[track_id].device_id,
                                        !.pending = update_track_events(track_id,
                                            manager.tracks[track_id].device_id, device_id)])
                ELSE /\ UNCHANGED manager
                     /\ ThreadReturns(t, frame, <<"NotFound", track_id>>)
    /\ UNCHANGED <<tm_last, tm_call, colliding>>

\* update_track: the next `self.event_tx.send`; `Ok(())` after the last
UpdateSend(t) ==
    /\ Idle("threads")
    /\ threads[t].op = "update_track" /\ threads[t].pc = "send"
    /\ manager' = send(manager, Head(threads[t].pending))
    /\ LET frame == [threads[t] EXCEPT !.sent = Append(@, Len(manager.events) + 1)]
       IN  IF Len(threads[t].pending) > 1
           THEN Continues(t, [frame EXCEPT !.pending = Tail(@)])
           ELSE ThreadReturns(t, frame, <<"Ok", threads[t].track_id>>)
    /\ UNCHANGED <<tm_last, tm_call, th_started, colliding>>

ThreadCreateLen == \E t \in Threads : CreateLen(t)
ThreadCreateId == \E t \in Threads : CreateId(t)
ThreadCreateContains == \E t \in Threads : CreateContains(t)
ThreadCreateInsert == \E t \in Threads : CreateInsert(t)
ThreadCreateSend == \E t \in Threads : CreateSend(t)
ThreadRemoveRemove == \E t \in Threads : RemoveRemove(t)
ThreadRemoveSend == \E t \in Threads : RemoveSend(t)
ThreadRemoveAny == \E t \in Threads : RemoveAny(t)
ThreadRemoveStore == \E t \in Threads : RemoveStore(t)
ThreadSoloGet == \E t \in Threads : SoloGet(t)
ThreadSoloFlag == \E t \in Threads : SoloFlag(t)
ThreadSoloAny == \E t \in Threads : SoloAny(t)
ThreadSoloStore == \E t \in Threads : SoloStore(t)
ThreadUpdateGetMut == \E t \in Threads : UpdateGetMut(t)
ThreadUpdateSend == \E t \in Threads : UpdateSend(t)

\* concurrent create_track and update_track calls
ThreadsNext ==
    \/ ThreadCreateLen
    \/ ThreadCreateId
    \/ ThreadCreateContains
    \/ ThreadCreateInsert
    \/ ThreadCreateSend
    \/ ThreadUpdateGetMut
    \/ ThreadUpdateSend

\* concurrent set_solo and remove_track calls
SoloNext ==
    \/ ThreadRemoveRemove
    \/ ThreadRemoveSend
    \/ ThreadRemoveAny
    \/ ThreadRemoveStore
    \/ ThreadSoloGet
    \/ ThreadSoloFlag
    \/ ThreadSoloAny
    \/ ThreadSoloStore

---------------------------------------------------------------------------
(* Properties of the TrackManager under concurrent callers *)

\* every thread is out of its call
AllReturned == \A t \in Threads : threads[t].pc = "idle"

\* C16: under any interleaving of concurrent create_track calls the table
\* never holds more than MAX_TRACKS tracks, and a create_track that finds
\* MAX_TRACKS tracks in the table returns MaxTracksReached and publishes no
\* event.
C16_CapacityUnderRaces ==
    /\ Cardinality(DOMAIN manager.tracks) <= manager.max_tracks
    /\ (th_last # NoCall /\ th_last.op = "create_track" /\ th_last.len >= manager.max_tracks)
          => (th_last.result = <<"MaxTracksReached", manager.max_tracks>>
                /\ th_last.sent = <<>>)

\* the last call that returned is an update_track
UpdateReturned == th_last # NoCall /\ th_last.op = "update_track"

\* the update of the last call carried a device_id other than the track's
DeviceChanged ==
    /\ th_last.device_id # NoDevice
    /\ th_last.device_id # th_last.old_device_id

\* the events at the positions of the bus the last call published at are
\* those of update_track, in its order
PublishedInOrder ==
    IF th_last.result[1] = "NotFound" THEN th_last.sent = <<>>
    ELSE IF DeviceChanged
    THEN /\ Len(th_last.sent) = 2
         /\ th_last.sent[1] < th_last.sent[2]
         /\ manager.events[th_last.sent[1]] =
                <<"DeviceChanged", th_last.track_id, th_last.old_device_id, th_last.device_id>>
         /\ manager.events[th_last.sent[2]] = <<"ConfigUpdated", th_last.track_id>>
    ELSE /\ Len(th_last.sent) = 1
         /\ manager.events[th_last.sent[1]] = <<"ConfigUpdated", th_last.track_id>>

\* the events of the bus between the two events of the last call
Between == {k \in 1..Len(manager.events) : th_last.sent[1] < k /\ k < th_last.sent[2]}

C20_SoloFlagAfterRaces == AllReturned => (manager.solo_active <=> AnySolo)


\* bound on the number of create_track calls that run against remove_track
MaxRaceCreates == 2

\* a create_track call begins while remove_track calls run
RaceCreateLen ==
    /\ th_started.create_track < MaxRaceCreates
    /\ ThreadCreateLen

\* concurrent create_track and remove_track calls
RaceNext ==
    \/ RaceCreateLen
    \/ ThreadCreateId
    \/ ThreadCreateContains
    \/ ThreadCreateInsert
    \/ ThreadCreateSend
    \/ ThreadRemoveRemove
    \/ ThreadRemoveSend
    \/ ThreadRemoveAny
    \/ ThreadRemoveStore

\* the positions on the bus of the Created and Removed events of track id
CreatedRemoved(id) ==
    {i \in 1..Len(manager.events) :
        manager.events[i] \in {<<"Created", id>>, <<"Removed", id>>}}

\* the most recent Created or Removed event of track id, "none" without one
LastCreatedRemoved(id) ==
    IF CreatedRemoved(id) = {} THEN "none"
    ELSE manager.events[CHOOSE i \in CreatedRemoved(id) :
                            \A j \in CreatedRemoved(id) : j <= i][1]

\* C31: with concurrent create_track and remove_track calls, whenever no call
\* of the manager is in progress the most recent Created or Removed event of
\* a track id is Created exactly when the track is in the table.
C31_EventsFollowTable ==
    AllReturned =>
        \A id \in SoloTrackIds :
            (LastCreatedRemoved(id) = "Created") <=> (id \in DOMAIN manager.tracks)

\* the Created events of track id on the bus
CreatedEvents(id) ==
    {i \in 1..Len(manager.events) : manager.events[i] = <<"Created", id>>}

\* two create_track calls, both with the caller-provided id 0, have returned
\* and nothing else was called
TwoCreatesOfSameId ==
    /\ AllReturned
    /\ th_started.create_track = 2 /\ th_started.update_track = 0
    /\ manager.next_id = 0

\* C32: of two concurrent create_track calls with the same caller-provided id
\* on a table without that id exactly one succeeds, so exactly one Created
\* event of the id is published.
C32_OneCreateWins ==
    TwoCreatesOfSameId => Cardinality(CreatedEvents(0)) = 1


---------------------------------------------------------------------------
(* TrackManager::start_all and start_track under the locks of the DashMap:
   the iterator of start_all keeps the read lock of the shard of the entry it
   yielded, get_mut of start_track takes the write lock of the shard of its
   key. *)

\* bounds on the number of start_all and of direct start_track calls
MaxStartAlls == 1
MaxStartTracks == 2

\* thread u holds the read guard of the iterator of start_all (`entry`)
HoldsIterGuard(u) == threads[u].op = "start_all" /\ threads[u].track_id # None

\* thread u holds the RefMut of start_track's tracks.get_mut
HoldsStartRefMut(u) == threads[u].op \in {"start_all", "start_track"} /\ threads[u].pc = "send"

\* RwLock::read of the shard of key succeeds: no thread holds its write guard
StartCanRead(key) ==
    \A u \in Threads :
        ~(HoldsStartRefMut(u) /\ determine_shard(threads[u].track_id) = determine_shard(key))

\* RwLock::write of the shard of key succeeds: no thread, the caller included,
\* holds a guard of the shard
StartCanWrite(key) ==
    /\ StartCanRead(key)
    /\ \A u \in Threads :
          ~(HoldsIterGuard(u) /\ determine_shard(threads[u].track_id) = determine_shard(key))

\* the calls start on an empty table or on a table of two tracks
StartInit ==
    /\ manager \in {TrackManagerNew, TwoTracks}
    /\ tm_last = NoCall
    /\ tm_call = NoCall
    /\ threads = [t \in Threads |-> IdleFrame]
    /\ th_started = NoneStarted
    /\ th_last = NoCall
    /\ colliding \in BOOLEAN

\* start_all: `self.tracks.iter()`, the next entry of the iteration; `collect()`
\* after the last
StartAllIter(t) ==
    /\ Idle("threads")
    /\ \/ Begins(t, "start_all", MaxStartAlls)
       \/ /\ threads[t].op = "start_all" /\ threads[t].pc = "iter"
          /\ UNCHANGED th_started
    /\ LET frame == [threads[t] EXCEPT !.op = "start_all"]
           remaining == (DOMAIN manager.tracks) \ frame.visited
       IN  IF remaining = {}
           THEN ThreadReturns(t, frame, frame.results)
           ELSE \E id \in remaining :
                  /\ StartCanRead(id)
                  /\ Continues(t, [frame EXCEPT !.track_id = id, !.pc = "get_mut",
                                                !.visited = @ \cup {id}])
    /\ UNCHANGED <<manager, tm_last, tm_call, colliding>>

\* the result of start_track goes to its caller: start_all collects it and
\* goes on with the iteration, a direct call returns it
StartResult(t, frame, result) ==
    IF frame.op = "start_all"
    THEN Continues(t, [frame EXCEPT !.pc = "iter", !.results = Append(@, result)])
    ELSE ThreadReturns(t, frame, result)

\* start_track: `self.tracks.get_mut(&track_id).ok_or(NotFound)?`, then
\* `track.start()?` under the RefMut
StartGetMut(t) ==
    /\ Idle("threads")
    /\ \/ /\ Begins(t, "start_track", MaxStartTracks)
          /\ \E track_id \in SoloTrackIds :
               threads' = [threads EXCEPT ![t] = [IdleFrame EXCEPT !.op = "start_track",
                                                                   !.track_id = track_id,
                                                                   !.pc = "get_mut"]]
          /\ UNCHANGED <<manager, th_last>>
       \/ /\ threads[t].op \in {"start_all", "start_track"} /\ threads[t].pc = "get_mut"
          /\ StartCanWrite(threads[t].track_id)
          /\ IF contains_key(manager, threads[t].track_id)
             THEN /\ manager' = [manager EXCEPT !.tracks[threads[t].track_id] = track_start(@)]
                  /\ Continues(t, [threads[t] EXCEPT !.pc = "send"])
             ELSE /\ UNCHANGED manager
                  /\ StartResult(t, threads[t], <<"NotFound", threads[t].track_id>>)
          /\ UNCHANGED th_started
    /\ UNCHANGED <<tm_last, tm_call, colliding>>

\* start_track: `self.event_tx.send(TrackEvent::Started(track_id))`, `Ok(())`
StartSend(t) ==
    /\ Idle("threads")
    /\ threads[t].op \in {"start_all", "start_track"} /\ threads[t].pc = "send"
    /\ manager' = send(manager, <<"Started", threads[t].track_id>>)
    /\ StartResult(t, [threads[t] EXCEPT !.sent = <<Len(manager.events) + 1>>],
                   <<"Ok", threads[t].track_id>>)
    /\ UNCHANGED <<tm_last, tm_call, th_started, colliding>>

ThreadStartAllIter == \E t \in Threads : StartAllIter(t)
ThreadStartGetMut == \E t \in Threads : StartGetMut(t)
ThreadStartSend == \E t \in Threads : StartSend(t)

\* concurrent start_all and start_track calls
StartNext ==
    \/ ThreadStartAllIter
    \/ ThreadStartGetMut
    \/ ThreadStartSend

\* a thread that is in a call is scheduled again
StartFairness ==
    \A t \in Threads :
        WF_vars(threads[t].pc # "idle" /\ (StartAllIter(t) \/ StartGetMut(t) \/ StartSend(t)))

\* C33: start_all on a manager with at least one track terminates: it never
\* blocks forever on the locks of the track table, and every call of start_all
\* that has begun returns.
C33_StartAllTerminates ==
    \A t \in Threads : (threads[t].op = "start_all") ~> (threads[t].op = "idle")

---------------------------------------------------------------------------
(* The receiver and the peer application: the packet loop creates a track
   and a playback state for the first packet of an unknown track_id, the
   event-handler task follows the manager's event bus, the user creates and
   removes tracks through the web UI.  The three run concurrently; a step is
   one manager call or one critical section of a mutex. *)

\* bound on the number of packets a run receives
MaxPackets == 3

\* the track ids of the packets and of the user's commands
AppTrackIds == {0, 1}

Position(pc, track_id) == [pc |-> pc, track_id |-> track_id]

AppInit ==
    /\ manager = TrackManagerNew
    /\ tm_last = NoCall
    /\ tm_call = NoCall
    /\ deleted_tracks = {}
    /\ track_states = {}
    /\ input_states = {}
    /\ states_lock = "free"
    /\ main_pc = Position("idle", None)
    /\ handler_pc = Position("idle", None)
    /\ event_rx = 0
    /\ user_removed = {}
    /\ app_last = NoCall
    /\ app_npackets = 0
    /\ app_late = FALSE

AppOff ==
    /\ deleted_tracks = {}
    /\ track_states = {}
    /\ input_states = {}
    /\ states_lock = "free"
    /\ main_pc = Position("idle", None)
    /\ handler_pc = Position("idle", None)
    /\ event_rx = 0
    /\ user_removed = {}
    /\ app_last = NoCall
    /\ app_npackets = 0
    /\ app_late = FALSE

\* packet loop: packet_rx.try_recv() returns a packet
RecvPacket ==
    /\ Idle("app")
    /\ main_pc.pc = "idle"
    /\ app_npackets < MaxPackets
    /\ \E track_id \in AppTrackIds : main_pc' = Position("check_deleted", track_id)
    /\ app_npackets' = app_npackets + 1
    /\ app_late' = (main_pc'.track_id \in user_removed)
    /\ UNCHANGED <<trackVars, deleted_tracks, track_states, input_states, states_lock,
                   handler_pc, event_rx, user_removed, app_last>>

\* packet loop: if deleted_tracks.lock().contains(&track_id) { continue; }
CheckDeleted ==
    /\ Idle("app")
    /\ main_pc.pc = "check_deleted"
    /\ IF main_pc.track_id \in deleted_tracks
       THEN /\ main_pc' = Position("idle", None)
            /\ app_last' = [op |-> "skipped", track_id |-> main_pc.track_id,
                            tombstoned |-> app_late]
       ELSE /\ main_pc' = Position("lock_states", main_pc.track_id)
            /\ UNCHANGED app_last
    /\ UNCHANGED <<trackVars, deleted_tracks, track_states, input_states, states_lock,
                   handler_pc, event_rx, user_removed, app_npackets, app_late>>

\* packet loop: let mut states = track_states.lock(); if !states.contains_key(&track_id)
LockStates ==
    /\ Idle("app")
    /\ main_pc.pc = "lock_states"
    /\ states_lock = "free"
    /\ states_lock' = "main"
    /\ main_pc' = Position(IF main_pc.track_id \in track_states THEN "process" ELSE "new_track",
                           main_pc.track_id)
    /\ UNCHANGED <<trackVars, deleted_tracks, track_states, input_states,
                   handler_pc, event_rx, user_removed, app_last, app_npackets, app_late>>

\* packet loop: OpusDecoder::new fails, continue (the guard of the mutex is dropped)
DecoderFails ==
    /\ Idle("app")
    /\ main_pc.pc = "new_track"
    /\ states_lock' = "free"
    /\ main_pc' = Position("idle", None)
    /\ app_last' = [op |-> "decoder_failed", track_id |-> main_pc.track_id]
    /\ UNCHANGED <<trackVars, deleted_tracks, track_states, input_states,
                   handler_pc, event_rx, user_removed, app_npackets, app_late>>

\* packet loop: if track_manager.get_track(track_id).is_none()
CheckManager ==
    /\ Idle("app")
    /\ main_pc.pc = "new_track"
    /\ main_pc' = Position(IF contains_key(manager, main_pc.track_id)
                           THEN "insert_state" ELSE "create_track",
                           main_pc.track_id)
    /\ UNCHANGED <<trackVars, deleted_tracks, track_states, input_states, states_lock,
                   handler_pc, event_rx, user_removed, app_last, app_npackets, app_late>>

\* packet loop: let _ = track_manager.create_track(track_config)
ImplicitCreate ==
    /\ Idle("app")
    /\ main_pc.pc = "create_track"
    /\ LET r == create_track(manager, [track_id |-> main_pc.track_id, device_id |-> "devA"])
       IN  /\ Returns("create_track", r)
           /\ app_last' = [op |-> "implicit_create", track_id |-> main_pc.track_id,
                           created |-> r.result[1] = "Ok",
                           tombstoned |-> app_late]
    /\ main_pc' = Position("insert_state", main_pc.track_id)
    /\ UNCHANGED <<deleted_tracks, track_states, input_states, states_lock,
                   handler_pc, event_rx, user_removed, app_npackets, app_late>>

\* packet loop: states.insert(track_id, TrackState { .. })
InsertState ==
    /\ Idle("app")
    /\ main_pc.pc = "insert_state"
    /\ track_states' = track_states \cup {main_pc.track_id}
    /\ main_pc' = Position("process", main_pc.track_id)
    /\ app_last' = [op |-> "insert_state", track_id |-> main_pc.track_id,
                    tombstoned |-> app_late]
    /\ UNCHANGED <<trackVars, deleted_tracks, input_states, states_lock,
                   handler_pc, event_rx, user_removed, app_npackets, app_late>>

\* packet loop: decode the packet, feed the jitter buffer, end of the iteration
ProcessPacket ==
    /\ Idle("app")
    /\ main_pc.pc = "process"
    /\ states_lock' = "free"
    /\ main_pc' = Position("idle", None)
    /\ app_last' = [op |-> "processed", track_id |-> main_pc.track_id,
                    tombstoned |-> app_late]
    /\ UNCHANGED <<trackVars, deleted_tracks, track_states, input_states,
                   handler_pc, event_rx, user_removed, app_npackets, app_late>>

\* web UI: ControlMessage::CreateTrack(config)
UserCreateTrack ==
    /\ Idle("app")
    /\ \E track_id \in AppTrackIds \cup {None} :
         LET r == create_track(manager, [track_id |-> track_id, device_id |-> "devA"])
         IN  /\ Returns("create_track", r)
             /\ user_removed' = IF r.result[1] = "Ok" THEN user_removed \ {r.result[2]}
                                ELSE user_removed
             /\ app_late' = (app_late /\ ~(r.result[1] = "Ok" /\ r.result[2] = main_pc.track_id))
    /\ UNCHANGED <<deleted_tracks, track_states, input_states, states_lock, main_pc,
                   handler_pc, event_rx, app_last, app_npackets>>

\* web UI: ControlMessage::RemoveTrack { track_id }
UserRemoveTrack ==
    /\ Idle("app")
    /\ \E track_id \in AppTrackIds :
         LET r == remove_track(manager, track_id)
         IN  /\ Returns("remove_track", r)
             /\ user_removed' = IF r.result[1] = "Ok" THEN user_removed \cup {track_id}
                                ELSE user_removed
    /\ UNCHANGED <<deleted_tracks, track_states, input_states, states_lock, main_pc,
                   handler_pc, event_rx, app_last, app_npackets, app_late>>

\* the next event of the handler's subscription
NextEvent == manager.events[event_rx + 1]

\* receiver, event handler: event_rx.recv() and the first statement of the
\* event's arm.  Removed: deleted_tracks.lock().insert(track_id), then the
\* state is removed under the states mutex; Created:
\* deleted_tracks.lock().remove(&track_id).
ReceiverHandleEvent ==
    /\ Idle("app")
    /\ handler_pc.pc = "idle"
    /\ event_rx < Len(manager.events)
    /\ event_rx' = event_rx + 1
    /\ CASE NextEvent[1] = "Removed" ->
              /\ deleted_tracks' = deleted_tracks \cup {NextEvent[2]}
              /\ handler_pc' = Position("remove_state", NextEvent[2])
         [] NextEvent[1] = "Created" ->
              /\ deleted_tracks' = deleted_tracks \ {NextEvent[2]}
              /\ UNCHANGED handler_pc
         [] OTHER -> UNCHANGED <<deleted_tracks, handler_pc>>
    /\ UNCHANGED <<trackVars, track_states, input_states, states_lock, main_pc,
                   user_removed, app_last, app_npackets, app_late>>

\* receiver, event handler, Removed arm: track_states.lock(); states.remove(&track_id)
ReceiverRemoveState ==
    /\ Idle("app")
    /\ handler_pc.pc = "remove_state"
    /\ states_lock = "free"
    /\ track_states' = track_states \ {handler_pc.track_id}
    /\ handler_pc' = Position("idle", None)
    /\ UNCHANGED <<trackVars, deleted_tracks, input_states, states_lock, main_pc,
                   event_rx, user_removed, app_last, app_npackets, app_late>>

\* peer, handle_track_event: Created starts a capture for the track if it is
\* still in the manager (create_capture_for_track may fail), Removed stops and
\* removes the capture; deleted_output_tracks is not among its arguments.
PeerHandleEvent ==
    /\ Idle("app")
    /\ handler_pc.pc = "idle"
    /\ event_rx < Len(manager.events)
    /\ event_rx' = event_rx + 1
    /\ CASE NextEvent[1] = "Removed" ->
              input_states' = input_states \ {NextEvent[2]}
         [] NextEvent[1] = "Created" /\ contains_key(manager, NextEvent[2]) ->
              \E started \in BOOLEAN :
                  input_states' = IF started THEN input_states \cup {NextEvent[2]}
                                  ELSE input_states
         [] OTHER -> UNCHANGED input_states
    /\ UNCHANGED <<trackVars, deleted_tracks, track_states, states_lock, main_pc, handler_pc,
                   user_removed, app_last, app_npackets, app_late>>

ReceiverNext ==
    \/ RecvPacket
    \/ CheckDeleted
    \/ LockStates
    \/ DecoderFails
    \/ CheckManager
    \/ ImplicitCreate
    \/ InsertState
    \/ ProcessPacket
    \/ UserCreateTrack
    \/ UserRemoveTrack
    \/ ReceiverHandleEvent
    \/ ReceiverRemoveState

PeerNext ==
    \/ RecvPacket
    \/ CheckDeleted
    \/ LockStates
    \/ DecoderFails
    \/ CheckManager
    \/ ImplicitCreate
    \/ InsertState
    \/ ProcessPacket
    \/ UserCreateTrack
    \/ UserRemoveTrack
    \/ PeerHandleEvent

---------------------------------------------------------------------------
(* Properties of the receiver and the peer application *)

\* C6: in the receiver, under any interleaving of the event handler and the
\* packet loop, once the user has removed track id and until the user creates
\* it again, no packet makes the packet loop create the track in the manager.
C6_NoImplicitRecreate ==
    (app_last.op = "implicit_create" /\ app_last.created) => ~app_last.tombstoned

\* C7: in the peer, after the user removed track id, a later packet with that
\* track_id is skipped: it creates neither a track in the manager nor an
\* output state, until the user re-creates the id.
C7_PeerTombstone ==
    /\ (app_last.op = "implicit_create" /\ app_last.created) => ~app_last.tombstoned
    /\ app_last.op = "insert_state" => ~app_last.tombstoned

---------------------------------------------------------------------------
(* network/sender.rs: AudioSender and MultiTrackSender.  send_audio takes and
   increments the track's counter inside the DashMap entry (one atomic step)
   and then hands the packet to the bounded input channel with try_send; two
   callers may be between the two steps at the same time. *)

\* bound standing for the channel's capacity, bounded(1024) in the source
ChannelCapacity == 2

\* bound on the number of send_audio calls of a run
MaxSendCalls == 4

Callers == {1, 2}

SenderTrackIds == {0, 1}

\* the numbers of earlier calls a run may start from: none, or enough for the
\* counter to be about to wrap
PriorCalls == {0, U32 - 2}

EmptyMap == <<>>

ChannelNew(connected) == [queue |-> <<>>, connected |-> connected]

CallerIdle == [pc |-> "idle", track_id |-> None, sequence |-> None]

\* the state prior send_audio calls on the track leave in the map
sequences_after(prior) ==
    LET present == {t \in SenderTrackIds : prior[t] # 0}
    IN  [t \in present |-> prior[t]]

\* self.sequences.entry(track_id).or_insert(0)
entry_or_insert(seqs, track_id) ==
    IF track_id \in DOMAIN seqs THEN seqs ELSE (track_id :> 0) @@ seqs

\* send_audio with the counter read but not incremented
assign_sequence_without_increment(seqs, track_id) ==
    LET entry == entry_or_insert(seqs, track_id)
    IN  [sequences |-> entry, sequence |-> entry[track_id]]

\* send_audio, "Get and increment sequence"
assign_sequence(seqs, track_id) ==
    LET entry == entry_or_insert(seqs, track_id)
        seq == entry[track_id]
    IN  [sequences |-> [entry EXCEPT ![track_id] = wrapping_add(seq, 1)],
         sequence |-> seq]

\* AudioSender::send: packet_tx.try_send(packet), any error is SendFailed
try_send(tx, packet) ==
    IF tx.connected /\ Len(tx.queue) < ChannelCapacity
    THEN [tx |-> [tx EXCEPT !.queue = Append(@, packet)], result |-> "Ok"]
    ELSE [tx |-> tx, result |-> "SendFailed"]

\* MultiTrackSender::new: AudioSender::new drops the receiver of its channel
SenderInit ==
    /\ ms_prior \in [SenderTrackIds -> PriorCalls]
    /\ sequences = sequences_after(ms_prior)
    /\ packet_tx = ChannelNew(FALSE)
    /\ running = FALSE
    /\ packets_sent = 0
    /\ caller_pc = [c \in Callers |-> CallerIdle]
    /\ ms_assigned = [t \in SenderTrackIds |-> <<>>]
    /\ ms_enqueued = [t \in SenderTrackIds |-> <<>>]
    /\ ms_failed = [t \in SenderTrackIds |-> {}]
    /\ ms_ncalls = 0

SenderOff ==
    /\ ms_prior = [t \in SenderTrackIds |-> 0]
    /\ sequences = EmptyMap
    /\ packet_tx = ChannelNew(FALSE)
    /\ running = FALSE
    /\ packets_sent = 0
    /\ caller_pc = [c \in Callers |-> CallerIdle]
    /\ ms_assigned = [t \in SenderTrackIds |-> <<>>]
    /\ ms_enqueued = [t \in SenderTrackIds |-> <<>>]
    /\ ms_failed = [t \in SenderTrackIds |-> {}]
    /\ ms_ncalls = 0

\* &mut self: no send_audio call is in progress
NoCallInProgress == \A c \in Callers : caller_pc[c].pc = "idle"

\* MultiTrackSender::start
SenderStart ==
    /\ Idle("sender")
    /\ NoCallInProgress
    /\ ~running
    /\ packet_tx' = ChannelNew(TRUE)
    /\ running' = TRUE
    /\ UNCHANGED <<sequences, packets_sent, caller_pc,
                   ms_prior, ms_assigned, ms_enqueued, ms_failed, ms_ncalls>>

\* MultiTrackSender::stop: the thread is joined, its receiver is dropped
SenderStop ==
    /\ Idle("sender")
    /\ NoCallInProgress
    /\ running
    /\ packet_tx' = [packet_tx EXCEPT !.queue = <<>>, !.connected = FALSE]
    /\ running' = FALSE
    /\ UNCHANGED <<sequences, packets_sent, caller_pc,
                   ms_prior, ms_assigned, ms_enqueued, ms_failed, ms_ncalls>>

\* send_audio, first step: the sequence is taken and the counter incremented
SendAudioAssign ==
    /\ Idle("sender")
    /\ ms_ncalls < MaxSendCalls
    /\ \E c \in Callers, track_id \in SenderTrackIds :
         LET r == assign_sequence(sequences, track_id)
         IN  /\ caller_pc[c].pc = "idle"
             /\ sequences' = r.sequences
             /\ caller_pc' = [caller_pc EXCEPT
                    ![c] = [pc |-> "send", track_id |-> track_id, sequence |-> r.sequence]]
             /\ ms_assigned' = [ms_assigned EXCEPT ![track_id] = Append(@, r.sequence)]
    /\ ms_ncalls' = ms_ncalls + 1
    /\ UNCHANGED <<packet_tx, running, packets_sent, ms_prior, ms_enqueued, ms_failed>>

\* send_audio, second step: self.inner.send(packet)?; Ok(sequence)
SendAudioSend ==
    /\ Idle("sender")
    /\ \E c \in Callers :
         LET at == caller_pc[c]
             r == try_send(packet_tx, [track_id |-> at.track_id, sequence |-> at.sequence])
         IN  /\ at.pc = "send"
             /\ packet_tx' = r.tx
             /\ caller_pc' = [caller_pc EXCEPT ![c] = CallerIdle]
             /\ IF r.result = "Ok"
                THEN /\ ms_enqueued' = [ms_enqueued EXCEPT ![at.track_id] = Append(@, at.sequence)]
                     /\ UNCHANGED ms_failed
                ELSE /\ ms_failed' = [ms_failed EXCEPT ![at.track_id] =
                                        @ \cup {[sequence |-> at.sequence,
                                                 full |-> packet_tx.connected]}]
                     /\ UNCHANGED ms_enqueued
    /\ UNCHANGED <<sequences, running, packets_sent, ms_prior, ms_assigned, ms_ncalls>>

\* sender_loop: recv_timeout returns a packet, which is serialized and sent;
\* packets_sent counts the datagrams the socket accepted
SenderLoopRecv ==
    /\ Idle("sender")
    /\ running
    /\ packet_tx.queue # <<>>
    /\ packet_tx' = [packet_tx EXCEPT !.queue = Tail(@)]
    /\ \E sent \in BOOLEAN : packets_sent' = IF sent THEN packets_sent + 1 ELSE packets_sent
    /\ UNCHANGED <<sequences, running, caller_pc,
                   ms_prior, ms_assigned, ms_enqueued, ms_failed, ms_ncalls>>

SenderNext ==
    \/ SenderStart
    \/ SenderStop
    \/ SendAudioAssign
    \/ SendAudioSend
    \/ SenderLoopRecv

---------------------------------------------------------------------------
(* Properties of MultiTrackSender *)

Range(q) == {q[i] : i \in 1..Len(q)}

\* the i-th sequence of a track counted from the calls made before the run
NthSequence(track_id, i) == (ms_prior[track_id] + i - 1) % U32

FailedSequences(track_id) == {f.sequence : f \in ms_failed[track_id]}

---------------------------------------------------------------------------
(* network/handshake.rs: PeerCapabilities, HandshakePacket and
   HandshakeManager.  A String is the sequence of the bytes of its UTF-8
   encoding, a payload is a sequence of bytes. *)

\* bound on the number of calls made on the manager in a run
MaxHandshakeCalls == 3

\* the longest name or message a packet carries: name_bytes.len().min(255)
NAME_MAX == 255

Take(bytes, n) == SubSeq(bytes, 1, Min(Len(bytes), n))

Drop(bytes, n) == SubSeq(bytes, n + 1, Len(bytes))

u16_to_le_bytes(v) == <<v % 256, v \div 256>>

u16_from_le_bytes(b0, b1) == b0 + 256 * b1

\* flags & mask != 0, mask a power of two
Bit(flags, mask) == (flags \div mask) % 2 = 1

\* char::REPLACEMENT_CHARACTER, U+FFFD, in UTF-8
REPLACEMENT_CHARACTER == <<239, 191, 189>>

\* the byte at position k belongs to a complete one-byte or two-byte character
valid_at(bytes, k) ==
    LET is_lead(i) == bytes[i] >= 194 /\ bytes[i] <= 223
        is_continuation(i) == bytes[i] >= 128 /\ bytes[i] <= 191
    IN  \/ bytes[k] < 128
        \/ is_lead(k) /\ k < Len(bytes) /\ is_continuation(k + 1)
        \/ is_continuation(k) /\ k > 1 /\ is_lead(k - 1)

\* String::from_utf8_lossy(..).to_string(), for input made of one-byte and
\* two-byte encodings: every byte that does not belong to a complete
\* character becomes U+FFFD, the valid runs between them are copied
RECURSIVE from_utf8_lossy(_)
from_utf8_lossy(bytes) ==
    LET broken == {k \in 1..Len(bytes) : ~valid_at(bytes, k)}
    IN  IF broken = {} THEN bytes
        ELSE LET first == CHOOSE k \in broken : \A j \in broken : k <= j
             IN  SubSeq(bytes, 1, first - 1) \o REPLACEMENT_CHARACTER
                 \o from_utf8_lossy(Drop(bytes, first))

PeerCapabilitiesNew(can_send, can_receive, supports_opus) ==
    [can_send |-> can_send, can_receive |-> can_receive, supports_opus |-> supports_opus,
     supports_fec |-> TRUE, supports_stereo |-> TRUE, max_tracks |-> 16]

full == PeerCapabilitiesNew(TRUE, TRUE, TRUE)

sender_only == PeerCapabilitiesNew(TRUE, FALSE, TRUE)

receiver_only == PeerCapabilitiesNew(FALSE, TRUE, TRUE)

\* a peer built without Opus: the fields are public
without_opus == [PeerCapabilitiesNew(TRUE, TRUE, FALSE) EXCEPT !.supports_fec = FALSE,
                                                                !.max_tracks = 255]

to_bytes(caps) ==
    << (IF caps.can_send THEN 1 ELSE 0) + (IF caps.can_receive THEN 2 ELSE 0)
       + (IF caps.supports_opus THEN 4 ELSE 0) + (IF caps.supports_fec THEN 8 ELSE 0)
       + (IF caps.supports_stereo THEN 16 ELSE 0),
       caps.max_tracks >>

\* from_bytes of a slice of at least two bytes
from_bytes(data) ==
    [can_send |-> Bit(data[1], 1), can_receive |-> Bit(data[1], 2),
     supports_opus |-> Bit(data[1], 4), supports_fec |-> Bit(data[1], 8),
     supports_stereo |-> Bit(data[1], 16), max_tracks |-> data[2]]

\* is_compatible_with that looks in one direction only
is_compatible_with_one_way(self, other) ==
    LET can_stream == self.can_send /\ other.can_receive
        codec_compatible == self.supports_opus /\ other.supports_opus
    IN  can_stream /\ codec_compatible

is_compatible_with(self, other) ==
    LET can_stream == \/ self.can_send /\ other.can_receive
                      \/ self.can_receive /\ other.can_send
        codec_compatible == self.supports_opus /\ other.supports_opus
    IN  can_stream /\ codec_compatible

HandshakePacketNew(packet_type, session_id, payload) ==
    [packet_type |-> packet_type, session_id |-> session_id, payload |-> payload]

\* Option<HandshakePacket>::None
NoPacket == HandshakePacketNew("None", 0, <<>>)

hello(session_id, name, audio_port, capabilities) ==
    LET name_len == Min(Len(name), NAME_MAX)
    IN  HandshakePacketNew("Hello", session_id,
            u16_to_le_bytes(audio_port) \o to_bytes(capabilities)
            \o <<name_len>> \o SubSeq(name, 1, name_len))

\* Option<(u16, PeerCapabilities, String)>
parse_hello(packet) ==
    IF Len(packet.payload) < 5 THEN [ok |-> FALSE]
    ELSE LET name_len == packet.payload[5]
         IN  IF Len(packet.payload) < 5 + name_len THEN [ok |-> FALSE]
             ELSE [ok |-> TRUE,
                   audio_port |-> u16_from_le_bytes(packet.payload[1], packet.payload[2]),
                   capabilities |-> from_bytes(SubSeq(packet.payload, 3, 4)),
                   name |-> from_utf8_lossy(SubSeq(packet.payload, 6, 5 + name_len))]

\* hello_ack that leaves the packet type of hello
hello_ack_keeping_type(session_id, name, audio_port, capabilities) ==
    hello(session_id, name, audio_port, capabilities)

hello_ack(session_id, name, audio_port, capabilities) ==
    [hello(session_id, name, audio_port, capabilities) EXCEPT !.packet_type = "HelloAck"]

ping(session_id) == HandshakePacketNew("Ping", session_id, <<>>)

pong(session_id) == HandshakePacketNew("Pong", session_id, <<>>)

goodbye(session_id) == HandshakePacketNew("Goodbye", session_id, <<>>)

sync_request(session_id) == HandshakePacketNew("SyncRequest", session_id, <<>>)

error(session_id, message) ==
    LET msg_len == Min(Len(message), NAME_MAX)
    IN  HandshakePacketNew("ErrorPacket", session_id, <<msg_len>> \o SubSeq(message, 1, msg_len))

\* parse_error(..).unwrap_or_default()
parse_error(packet) ==
    IF packet.payload = <<>> THEN <<>>
    ELSE LET msg_len == packet.payload[1]
         IN  IF Len(packet.payload) < 1 + msg_len THEN <<>>
             ELSE from_utf8_lossy(SubSeq(packet.payload, 2, 1 + msg_len))

\* the message of the Error reply to an incompatible Hello
IncompatibleMessage ==
    <<208, 157, 208, 181, 209, 129, 208, 190, 208, 178, 208, 188, 208, 181, 209, 129, 209, 130,
      208, 184, 208, 188, 209, 139, 208, 181, 32, 208, 178, 208, 190, 208, 183, 208, 188, 208,
      190, 208, 182, 208, 189, 208, 190, 209, 129, 209, 130, 208, 184, 32, 208, 191, 208, 184,
      209, 128, 208, 190, 208, 178>>

HelloSent(sent_at) == [kind |-> "HelloSent", sent_at |-> sent_at]

Connected(peer_name, peer_caps, audio_port, connected_at) ==
    [kind |-> "Connected", peer_name |-> peer_name, peer_caps |-> peer_caps,
     audio_port |-> audio_port, connected_at |-> connected_at]

Failed(reason) == [kind |-> "Failed", reason |-> reason]

HandshakeManagerNew(name, audio_port, capabilities) ==
    [our_name |-> name, our_audio_port |-> audio_port, our_capabilities |-> capabilities,
     states |-> EmptyMap, next_session_id |-> 1]

states_insert(hm, peer_addr, state) ==
    [hm EXCEPT !.states = (peer_addr :> state) @@ hm.states]

states_remove(hm, peer_addr) ==
    [hm EXCEPT !.states = [a \in DOMAIN hm.states \ {peer_addr} |-> hm.states[a]]]

initiate(hm, peer_addr, now) ==
    LET session_id == hm.next_session_id
        counted == [hm EXCEPT !.next_session_id = wrapping_add(session_id, 1)]
    IN  [hm |-> states_insert(counted, peer_addr, HelloSent(now)),
         reply |-> hello(session_id, hm.our_name, hm.our_audio_port, hm.our_capabilities)]

process_packet(hm, peer_addr, packet, now) ==
    CASE packet.packet_type = "Hello" ->
           LET parsed == parse_hello(packet)
           IN  IF ~parsed.ok THEN [hm |-> hm, reply |-> NoPacket]
               ELSE IF ~is_compatible_with(hm.our_capabilities, parsed.capabilities)
               THEN [hm |-> hm, reply |-> error(packet.session_id, IncompatibleMessage)]
               ELSE [hm |-> states_insert(hm, peer_addr,
                               Connected(parsed.name, parsed.capabilities, parsed.audio_port,
                                         now)),
                     reply |-> hello_ack(packet.session_id, hm.our_name, hm.our_audio_port,
                                         hm.our_capabilities)]
      [] packet.packet_type = "HelloAck" ->
           LET parsed == parse_hello(packet)
           IN  IF ~parsed.ok THEN [hm |-> hm, reply |-> NoPacket]
               ELSE [hm |-> states_insert(hm, peer_addr,
                               Connected(parsed.name, parsed.capabilities, parsed.audio_port,
                                         now)),
                     reply |-> NoPacket]
      [] packet.packet_type = "Ping" ->
           [hm |-> hm, reply |-> pong(packet.session_id)]
      [] packet.packet_type = "Goodbye" ->
           [hm |-> states_remove(hm, peer_addr), reply |-> NoPacket]
      [] packet.packet_type = "ErrorPacket" ->
           [hm |-> states_insert(hm, peer_addr, Failed(parse_error(packet))),
            reply |-> NoPacket]
      [] OTHER -> [hm |-> hm, reply |-> NoPacket]

\* sent_at.elapsed()
elapsed(instant, now) == now - instant

\* cleanup_stale with a retain that keeps Failed entries
cleanup_stale_keeping_failed(hm, timeout, now) ==
    LET retain(state) ==
            CASE state.kind = "HelloSent" -> elapsed(state.sent_at, now) < timeout
              [] OTHER -> TRUE
        retained == {a \in DOMAIN hm.states : retain(hm.states[a])}
    IN  [hm EXCEPT !.states = [a \in retained |-> hm.states[a]]]

\* cleanup_stale: states.retain(..)
cleanup_stale(hm, timeout, now) ==
    LET retain(state) ==
            CASE state.kind = "HelloSent" -> elapsed(state.sent_at, now) < timeout
              [] state.kind = "Connected" -> TRUE
              [] state.kind = "Failed" -> FALSE
              [] OTHER -> TRUE
        retained == {a \in DOMAIN hm.states : retain(hm.states[a])}
    IN  [hm EXCEPT !.states = [a \in retained |-> hm.states[a]]]

\* bound on the clock
MaxClock == 1

\* the timeouts cleanup_stale is called with, in ticks
Timeouts == {1, 2}

Addrs == {"a1", "a2"}

SessionIds == {7, U32 - 1}

Repeat(byte, n) == [i \in 1..n |-> byte]

PeerNew(name, audio_port, capabilities) ==
    [name |-> name, audio_port |-> audio_port, capabilities |-> capabilities]

\* the configurations the local manager is built with; the names are "PC"
\* and 254 bytes of ASCII followed by a two-byte character
LocalPeers ==
    { PeerNew(<<80, 67>>, 5000, full),
      PeerNew(Repeat(65, 254) \o <<195, 169>>, 65535, sender_only) }

\* the remote peers whose packets arrive
RemotePeers ==
    { PeerNew(<<80, 67>>, 4660, full),
      PeerNew(Repeat(65, 256), 65535, receiver_only),
      PeerNew(Repeat(65, 254) \o <<195, 169>>, 5000, sender_only),
      PeerNew(<<77, 97, 99>>, 80, without_opus) }

\* the packets that arrive without a peer to tell about: a Hello cut short and
\* the packets without payload
PlainPackets ==
    { HandshakePacketNew("Hello", 7, <<136, 19, 31, 16>>),
      HandshakePacketNew("Hello", 7, <<136, 19, 31, 16, 3, 80>>),
      ping(7), goodbye(7), sync_request(7),
      error(7, IncompatibleMessage),
      HandshakePacketNew("ErrorPacket", 7, <<9, 80>>) }

HandshakeInit ==
    /\ \E local \in LocalPeers :
         handshake = HandshakeManagerNew(local.name, local.audio_port, local.capabilities)
    /\ hs_last = NoCall
    /\ hs_ncalls = 0
    /\ hs_sent = EmptyMap
    /\ hs_now = 0

HandshakeOff ==
    /\ handshake = HandshakeManagerNew(<<80, 67>>, 5000, full)
    /\ hs_last = NoCall
    /\ hs_ncalls = 0
    /\ hs_sent = EmptyMap
    /\ hs_now = 0

\* the state of an address before a call, "None" for an address not in the map
PriorState(peer_addr) ==
    IF peer_addr \in DOMAIN handshake.states THEN handshake.states[peer_addr]
    ELSE [kind |-> "None"]

Called(op, peer_addr, packet, peer, r) ==
    /\ hs_ncalls < MaxHandshakeCalls
    /\ handshake' = r.hm
    /\ hs_last' = [op |-> op, peer_addr |-> peer_addr, packet |-> packet, peer |-> peer,
                   prior |-> PriorState(peer_addr), reply |-> r.reply, now |-> hs_now]
    /\ hs_ncalls' = hs_ncalls + 1
    /\ UNCHANGED hs_now

NoPeer == PeerNew(<<>>, 0, without_opus)

Initiate ==
    /\ Idle("handshake")
    /\ \E peer_addr \in Addrs :
         LET r == initiate(handshake, peer_addr, hs_now)
         IN  /\ Called("initiate", peer_addr, NoPacket, NoPeer, r)
             /\ hs_sent' = (peer_addr :> r.reply.session_id) @@ hs_sent

\* process_packet with a Hello the remote peer built with HandshakePacket::hello
ProcessHello ==
    /\ Idle("handshake")
    /\ \E peer_addr \in Addrs, peer \in RemotePeers, session_id \in SessionIds :
         LET packet == hello(session_id, peer.name, peer.audio_port, peer.capabilities)
         IN  Called("process_packet", peer_addr, packet, peer,
                    process_packet(handshake, peer_addr, packet, hs_now))
    /\ UNCHANGED hs_sent

\* the session ids of the HelloAcks that arrive: the first one the manager
\* uses, and one it does not use in a run
AckSessionIds == {1, 7}

\* the remote peers that answer with a HelloAck
AckPeers == {peer \in RemotePeers : peer.capabilities \in {full, receiver_only}}

\* process_packet with the HelloAck of a remote peer
ProcessHelloAck ==
    /\ Idle("handshake")
    /\ \E peer_addr \in Addrs, peer \in AckPeers, session_id \in AckSessionIds :
         LET packet == hello_ack(session_id, peer.name, peer.audio_port, peer.capabilities)
         IN  Called("process_packet", peer_addr, packet, peer,
                    process_packet(handshake, peer_addr, packet, hs_now))
    /\ UNCHANGED hs_sent

\* process_packet with any other packet
ProcessPlain ==
    /\ Idle("handshake")
    /\ \E peer_addr \in Addrs, packet \in PlainPackets :
         Called("process_packet", peer_addr, packet, NoPeer,
                process_packet(handshake, peer_addr, packet, hs_now))
    /\ UNCHANGED hs_sent

CleanupStale ==
    /\ Idle("handshake")
    /\ hs_ncalls < MaxHandshakeCalls
    /\ \E timeout \in Timeouts :
         /\ handshake' = cleanup_stale(handshake, timeout, hs_now)
         /\ hs_last' = [op |-> "cleanup_stale", timeout |-> timeout,
                        prior_states |-> handshake.states, now |-> hs_now]
    /\ hs_ncalls' = hs_ncalls + 1
    /\ UNCHANGED <<hs_sent, hs_now>>

\* time passes between two calls
Tick ==
    /\ Idle("handshake")
    /\ hs_now < MaxClock
    /\ hs_now' = hs_now + 1
    /\ UNCHANGED <<handshake, hs_last, hs_ncalls, hs_sent>>

HandshakeNext ==
    \/ Initiate
    \/ ProcessHello
    \/ ProcessHelloAck
    \/ ProcessPlain
    \/ CleanupStale
    \/ Tick

---------------------------------------------------------------------------
(* Properties of HandshakeManager *)

\* the last call was process_packet with a well-formed Hello
HelloProcessed ==
    /\ hs_last.op = "process_packet"
    /\ hs_last.packet.packet_type = "Hello"
    /\ hs_last.peer # NoPeer

HelloCompatible ==
    /\ HelloProcessed
    /\ is_compatible_with(handshake.our_capabilities, hs_last.peer.capabilities)

HelloIncompatible ==
    /\ HelloProcessed
    /\ ~is_compatible_with(handshake.our_capabilities, hs_last.peer.capabilities)

\* the name field of a Hello or HelloAck payload, as bytes
NameField(packet) == SubSeq(packet.payload, 6, Len(packet.payload))

\* the reply is a HelloAck that echoes the session_id and carries the local
\* audio port and capabilities
AckOfLocalPeer(reply) ==
    /\ reply.packet_type = "HelloAck"
    /\ reply.session_id = hs_last.packet.session_id
    /\ reply.payload[1] + 256 * reply.payload[2] = handshake.our_audio_port
    /\ from_bytes(SubSeq(reply.payload, 3, 4)) = handshake.our_capabilities
    /\ reply.payload[5] = Len(NameField(reply))

\* C9 as stated: after a compatible well-formed Hello from a, whatever the
\* prior state of a, the reply is a HelloAck echoing the session_id with the
\* local name, audio port and capabilities, and a is Connected with the
\* peer's name, capabilities and audio port.
C9_HelloAckAsStated ==
    HelloCompatible =>
        /\ AckOfLocalPeer(hs_last.reply)
        /\ NameField(hs_last.reply) = handshake.our_name
        /\ hs_last.peer_addr \in DOMAIN handshake.states
        /\ handshake.states[hs_last.peer_addr] =
               Connected(hs_last.peer.name, hs_last.peer.capabilities, hs_last.peer.audio_port,
                         hs_last.now)

\* C9: after a compatible well-formed Hello from a, whatever the prior state
\* of a, the reply is a HelloAck echoing the session_id with the local audio
\* port and capabilities and the first 255 bytes of the local name, and a is
\* Connected with the peer's capabilities and audio port and with the name
\* the Hello carries (at most 255 bytes, bytes that are not UTF-8 replaced),
\* which is the peer's name when that is at most 255 bytes long.
C9_HelloAck ==
    HelloCompatible =>
        /\ AckOfLocalPeer(hs_last.reply)
        /\ Len(NameField(hs_last.reply)) <= 255
        /\ Len(NameField(hs_last.reply)) = Min(Len(handshake.our_name), 255)
        /\ \A i \in 1..Len(NameField(hs_last.reply)) :
               NameField(hs_last.reply)[i] = handshake.our_name[i]
        /\ hs_last.peer_addr \in DOMAIN handshake.states
        /\ LET state == handshake.states[hs_last.peer_addr]
           IN  /\ state.kind = "Connected"
               /\ state.peer_caps = hs_last.peer.capabilities
               /\ state.audio_port = hs_last.peer.audio_port
               /\ state.peer_name = from_utf8_lossy(NameField(hs_last.packet))
               /\ Len(hs_last.peer.name) <= 255 => state.peer_name = hs_last.peer.name

\* a compatible Hello arrived for an address whose state was Failed, from a
\* peer with a name of more than 255 bytes, at a manager with such a name
C9_Witness ==
    /\ HelloCompatible
    /\ hs_last.prior.kind = "Failed"
    /\ Len(hs_last.peer.name) > 255
    /\ Len(handshake.our_name) > 255
    /\ handshake.states[hs_last.peer_addr].kind = "Connected"

\* C10: after a Hello from a whose capabilities are incompatible with the
\* local ones, the reply is an Error packet echoing the session_id and the
\* state of a is Failed with the incompatibility reason.
C10_IncompatibleFails ==
    HelloIncompatible =>
        /\ hs_last.reply.packet_type = "ErrorPacket"
        /\ hs_last.reply.session_id = hs_last.packet.session_id
        /\ hs_last.peer_addr \in DOMAIN handshake.states
        /\ handshake.states[hs_last.peer_addr] = Failed(parse_error(hs_last.reply))

\* the last call was process_packet with the HelloAck of a remote peer
HelloAckProcessed ==
    /\ hs_last.op = "process_packet"
    /\ hs_last.packet.packet_type = "HelloAck"

\* the HelloAck answers the Hello this manager sent to the address
AckExpected ==
    /\ hs_last.prior.kind = "HelloSent"
    /\ hs_last.peer_addr \in DOMAIN hs_sent
    /\ hs_last.packet.session_id = hs_sent[hs_last.peer_addr]

\* C11: a HelloAck moves address a to Connected only if a is HelloSent and
\* the HelloAck's session_id is the one of the Hello sent to a; any other
\* HelloAck is dropped and leaves the state of a as it was.
C11_HelloAckMatched ==
    (HelloAckProcessed /\ ~AckExpected) => PriorState(hs_last.peer_addr) = hs_last.prior

\* the entries of the map before the sweep that the sweep has to remove
Stale(before, timeout, now) ==
    {a \in DOMAIN before :
        \/ before[a].kind = "Failed"
        \/ before[a].kind = "HelloSent" /\ now - before[a].sent_at >= timeout}

---------------------------------------------------------------------------
(* network/discovery.rs: the listener loop of DiscoveryService.  One
   iteration reads the socket, updates or adds the peer of a decoded packet
   and sweeps the stale peers; time passes inside an iteration (the sleeps,
   the callback) and between two iterations. *)

\* Duration::from_secs(10) of the sweep
STALE_SECS == 10

\* bound on the clock, in seconds
MaxTime == 20

\* bound on the number of iterations of the listener loop
MaxIterations == 4

\* the seconds that pass in one step
Delays == {0, 9, 10}

SocketAddrNew(ip, port) == [ip |-> ip, port |-> port]

DiscoveryPacketNew(packet_type, audio_port, name) ==
    [packet_type |-> packet_type, audio_port |-> audio_port, name |-> name]

\* what socket.recv_from gives and DiscoveryPacket::deserialize makes of it:
\* two beacons of the sender at ip1 (sent from two ports, with two audio
\* ports and names), a beacon of the receiver at ip1, a request from ip2
Datagrams ==
    { [addr |-> SocketAddrNew("ip1", 5001),
       packet |-> DiscoveryPacketNew("SenderBeacon", 5000, "A")],
      [addr |-> SocketAddrNew("ip1", 40000),
       packet |-> DiscoveryPacketNew("SenderBeacon", 6000, "B")],
      [addr |-> SocketAddrNew("ip1", 5001),
       packet |-> DiscoveryPacketNew("ReceiverBeacon", 5000, "A")],
      [addr |-> SocketAddrNew("ip2", 5001),
       packet |-> DiscoveryPacketNew("Request", 5000, "C")] }

DiscoveredPeerNew(address, audio_port, name, is_sender, last_seen) ==
    [address |-> address, audio_port |-> audio_port, name |-> name,
     is_sender |-> is_sender, last_seen |-> last_seen]

\* matches!(packet.packet_type, DiscoveryPacketType::SenderBeacon)
is_sender_beacon(packet) == packet.packet_type = "SenderBeacon"

\* the positions of the peers the loop "for existing in peers_guard.iter_mut()"
\* stops at: same IP and same role
matching(list, addr, is_sender) ==
    {i \in 1..Len(list) : list[i].address.ip = addr.ip /\ list[i].is_sender = is_sender}

\* "Update or add peer" that adds a peer for every packet
update_or_add_always_adding(list, addr, packet, now) ==
    LET is_sender == is_sender_beacon(packet)
        peer == DiscoveredPeerNew(addr, packet.audio_port, packet.name, is_sender, now)
    IN  [peers |-> Append(list, peer), found |-> FALSE]

\* "Update or add peer": the first match is refreshed, else the peer is pushed
update_or_add(list, addr, packet, now) ==
    LET is_sender == is_sender_beacon(packet)
        peer == DiscoveredPeerNew(addr, packet.audio_port, packet.name, is_sender, now)
        found == matching(list, addr, is_sender)
    IN  IF found # {}
        THEN LET first == CHOOSE i \in found : \A j \in found : i <= j
             IN  [peers |-> [list EXCEPT ![first].last_seen = now,
                                         ![first].audio_port = peer.audio_port,
                                         ![first].name = peer.name],
                  found |-> TRUE]
        ELSE [peers |-> Append(list, peer), found |-> FALSE]

\* p.last_seen.elapsed() <= Duration::from_secs(10)
fresh_or_at_timeout(p, now) == elapsed(p.last_seen, now) <= STALE_SECS

\* p.last_seen.elapsed() < Duration::from_secs(10)
fresh(p, now) == elapsed(p.last_seen, now) < STALE_SECS

\* the sweep that keeps a peer seen exactly 10 s ago
sweep_keeping_at_timeout(list, now) == SelectSeq(list, LAMBDA p : fresh_or_at_timeout(p, now))

\* "Clean up stale peers": peers_guard.retain(..)
sweep(list, now) == SelectSeq(list, LAMBDA p : fresh(p, now))

Keys == {<<d.addr.ip, is_sender_beacon(d.packet)>> : d \in Datagrams}

NoReception ==
    [count |-> 0, pushes |-> 0, callbacks |-> 0, known |-> FALSE, last_rx |-> 0,
     first_addr |-> SocketAddrNew("none", 0), packet |-> DiscoveryPacketNew("none", 0, "")]

\* DiscoveryService::new and start: the listener holds the callback set before
DiscoveryInit ==
    /\ peers = <<>>
    /\ callback \in BOOLEAN
    /\ dc_now = 0
    /\ dc_swept_at = 0
    /\ dc_rx = [k \in Keys |-> NoReception]
    /\ dc_iters = 0

DiscoveryOff ==
    /\ peers = <<>>
    /\ callback = FALSE
    /\ dc_now = 0
    /\ dc_swept_at = 0
    /\ dc_rx = [k \in Keys |-> NoReception]
    /\ dc_iters = 0

\* the history of a key after one more reception of its beacon
Received(rx, d, now, r) ==
    LET pushed == IF r.found THEN 0 ELSE 1
        called == IF ~r.found /\ callback THEN 1 ELSE 0
    IN  IF rx.count = 0 \/ now - rx.last_rx >= STALE_SECS
        THEN [count |-> 1, pushes |-> pushed, callbacks |-> called, known |-> r.found,
              last_rx |-> now, first_addr |-> d.addr, packet |-> d.packet]
        ELSE [rx EXCEPT !.count = IF @ < MaxIterations THEN @ + 1 ELSE @,
                        !.pushes = @ + pushed, !.callbacks = @ + called,
                        !.last_rx = now, !.packet = d.packet]

\* common end of an iteration: time passes, then the sweep
EndOfIteration(list, delay) ==
    /\ dc_iters < MaxIterations
    /\ dc_now + delay <= MaxTime
    /\ dc_now' = dc_now + delay
    /\ peers' = sweep(list, dc_now')
    /\ dc_swept_at' = dc_now'
    /\ dc_iters' = dc_iters + 1
    /\ UNCHANGED callback

\* an iteration whose recv_from returns a packet that deserializes
ListenPacket ==
    /\ Idle("discovery")
    /\ \E d \in Datagrams, delay \in Delays :
         LET r == update_or_add(peers, d.addr, d.packet, dc_now)
             key == <<d.addr.ip, is_sender_beacon(d.packet)>>
         IN  /\ dc_rx' = [dc_rx EXCEPT ![key] = Received(@, d, dc_now, r)]
             /\ EndOfIteration(r.peers, delay)

\* an iteration whose recv_from returns a datagram that does not deserialize,
\* WouldBlock (sleep 10 ms) or another error (sleep 100 ms)
ListenNothing ==
    /\ Idle("discovery")
    /\ \E delay \in Delays : EndOfIteration(peers, delay)
    /\ UNCHANGED dc_rx

\* the listener thread is not scheduled between two iterations
Elapse ==
    /\ Idle("discovery")
    /\ \E delay \in Delays \ {0} :
         /\ dc_now + delay <= MaxTime
         /\ dc_now' = dc_now + delay
    /\ UNCHANGED <<peers, callback, dc_swept_at, dc_rx, dc_iters>>

DiscoveryNext ==
    \/ ListenPacket
    \/ ListenNothing
    \/ Elapse

---------------------------------------------------------------------------
(* Properties of the discovery listener *)

EntriesOf(key) == matching(peers, SocketAddrNew(key[1], 0), key[2])

\* C13: while the beacons of one source IP and role are received less than
\* 10 s apart, starting with one that finds no entry, exactly one entry is
\* added and the callback is invoked exactly once; every later reception only
\* refreshes last_seen, audio_port and name of that entry.
C13_DiscoveryIdempotent ==
    \A key \in Keys :
        LET rx == dc_rx[key]
        IN  (rx.count >= 1 /\ ~rx.known) =>
                /\ rx.pushes = 1
                /\ callback => rx.callbacks = 1
                /\ Cardinality(EntriesOf(key)) <= 1
                /\ \A i \in EntriesOf(key) :
                       peers[i] = DiscoveredPeerNew(rx.first_addr, rx.packet.audio_port,
                                                    rx.packet.name, key[2], rx.last_rx)

\* the sender beacon of ip1 was received three times in a row less than 10 s
\* apart, from two ports and with two names, and its entry is in the list
C13_Witness ==
    LET rx == dc_rx[<<"ip1", TRUE>>]
    IN  /\ rx.count >= 3
        /\ ~rx.known
        /\ callback
        /\ rx.first_addr # SocketAddrNew("ip1", 40000)
        /\ rx.packet.name = "B"
        /\ rx.last_rx >= 10
        /\ EntriesOf(<<"ip1", TRUE>>) # {}

\* C14: after every iteration no peer in the list was last seen 10 s or more
\* before the iteration's sweep, and a peer whose beacons keep arriving less
\* than 10 s apart is in the list as long as its last beacon is less than
\* 10 s old.
C14_StaleEvicted ==
    /\ \A i \in 1..Len(peers) : dc_swept_at - peers[i].last_seen < STALE_SECS
    /\ \A key \in Keys :
          (dc_rx[key].count >= 1 /\ dc_now - dc_rx[key].last_rx < STALE_SECS)
              => EntriesOf(key) # {}

\* a sweep found one peer not seen for 10 s or more and evicted it, while
\* another peer, whose second beacon came 9 s before that sweep, stayed
C14_Witness ==
    /\ dc_swept_at = dc_now
    /\ \E key \in Keys :
          /\ dc_rx[key].count >= 1
          /\ dc_swept_at - dc_rx[key].last_rx >= STALE_SECS
          /\ EntriesOf(key) = {}
    /\ \E key \in Keys :
          /\ dc_rx[key].count >= 2
          /\ dc_swept_at - dc_rx[key].last_rx = 9
          /\ EntriesOf(key) # {}


\* the address the beacons of this host come from
OwnIp == "own"

\* beacon_loop: the packet this service broadcasts to DISCOVERY_PORT, the port
\* its own socket is bound to
OwnBeacon(is_sender) ==
    [addr |-> SocketAddrNew(OwnIp, 5001),
     packet |-> DiscoveryPacketNew(IF is_sender THEN "SenderBeacon" ELSE "ReceiverBeacon",
                                   5000, "me")]

\* an iteration whose recv_from returns the beacon this service broadcast itself
ListenOwnBeacon ==
    /\ Idle("discovery")
    /\ \E is_sender \in BOOLEAN, delay \in Delays :
         LET d == OwnBeacon(is_sender)
         IN  EndOfIteration(update_or_add(peers, d.addr, d.packet, dc_now).peers, delay)
    /\ UNCHANGED dc_rx

\* the listener loop of a running service, which also hears its own beacons
OwnBeaconNext ==
    \/ ListenPacket
    \/ ListenNothing
    \/ Elapse
    \/ ListenOwnBeacon

\* C38: a running DiscoveryService never lists its own host as a peer: its
\* own beacons add no entry to the peer list.
C38_OwnHostNotListed ==
    \A i \in 1..Len(peers) : peers[i].address.ip # OwnIp

---------------------------------------------------------------------------
(* PeerCapabilities::is_compatible_with on its own: two capability sets, the
   constructors' and those from_bytes makes of a received flags byte, and
   what the function returns for them. *)

FlagsInputs == 0..31

CapabilitySets ==
    {full, sender_only, receiver_only, without_opus}
        \cup {from_bytes(<<f, 16>>) : f \in FlagsInputs}

CapsInit ==
    \E a \in CapabilitySets, b \in CapabilitySets :
        compat = [self |-> a, other |-> b, called |-> FALSE, result |-> FALSE]

CapsOff == compat = [self |-> full, other |-> full, called |-> FALSE, result |-> FALSE]

\* self.is_compatible_with(&other)
IsCompatibleWith ==
    /\ Idle("caps")
    /\ ~compat.called
    /\ compat' = [compat EXCEPT !.called = TRUE,
                                !.result = is_compatible_with(compat.self, compat.other)]

\* the capabilities of another peer arrive: from_bytes of its two bytes
CapsFromBytes ==
    /\ Idle("caps")
    /\ compat.called
    /\ \E f \in FlagsInputs, n \in {1, 16} :
          compat' = [compat EXCEPT !.other = from_bytes(<<f, n>>), !.called = FALSE,
                                   !.result = FALSE]

CapsNext == IsCompatibleWith \/ CapsFromBytes

\* what the claim says of sender_only and receiver_only
SenderReceiverRule ==
    /\ (compat.self = sender_only /\ compat.other = receiver_only) => compat.result
    /\ (compat.self = receiver_only /\ compat.other = sender_only) => compat.result
    /\ (compat.self = sender_only /\ compat.other = sender_only) => ~compat.result

C24_ConverseWitness ==
    /\ compat.called /\ compat.result
    /\ compat.self = receiver_only /\ compat.other = sender_only

---------------------------------------------------------------------------
(* protocol.rs: AudioPacket and its wire format.  A header of 16 bytes
   (magic u16, track_id u8, flags u8, sequence u32, timestamp u64, all
   little-endian) and then the payload.  The u32 and the u64 are written here
   as their 16-bit limbs, least significant first, so that every value of the
   full width is expressible; bytes are 0..255. *)

PACKET_MAGIC == 44801

HEADER_SIZE == 16

\* buf.put_u8 / data.get_u8
put_u8(v) == <<v>>

get_u8(data, at) == data[at]

\* buf.put_u16_le / data.get_u16_le: low byte first
put_u16_le(v) == <<v % 256, v \div 256>>

get_u16_le(data, at) == data[at] + 256 * data[at + 1]

\* buf.put_u32_le / data.get_u32_le on the two limbs of the u32
put_u32_le(v) == put_u16_le(v[1]) \o put_u16_le(v[2])

get_u32_le(data, at) == <<get_u16_le(data, at), get_u16_le(data, at + 2)>>

\* buf.put_u64_le / data.get_u64_le on the four limbs of the u64
put_u64_le(v) == put_u32_le(<<v[1], v[2]>>) \o put_u32_le(<<v[3], v[4]>>)

get_u64_le(data, at) == get_u32_le(data, at) \o get_u32_le(data, at + 4)

\* PacketFlags::as_byte and PacketFlags::from_byte: the flags are the byte
as_byte(flags) == flags

from_byte(byte) == byte

AudioPacketOf(track_id, flags, sequence, timestamp, payload) ==
    [track_id |-> track_id, flags |-> flags, sequence |-> sequence,
     timestamp |-> timestamp, payload |-> payload]

\* the packet of an Option<AudioPacket> that is None
NoAudioPacket == AudioPacketOf(0, 0, <<0, 0>>, <<0, 0, 0, 0>>, <<>>)

\* AudioPacket::serialize
serialize(p) ==
    put_u16_le(PACKET_MAGIC) \o put_u8(p.track_id) \o put_u8(as_byte(p.flags))
        \o put_u32_le(p.sequence) \o put_u64_le(p.timestamp) \o p.payload

\* deserialize that keeps only the three flag bits the protocol defines
deserialize_masking_flags(data) ==
    IF Len(data) < HEADER_SIZE THEN [some |-> FALSE, packet |-> NoAudioPacket]
    ELSE IF get_u16_le(data, 1) # PACKET_MAGIC THEN [some |-> FALSE, packet |-> NoAudioPacket]
    ELSE [some |-> TRUE,
          packet |-> AudioPacketOf(get_u8(data, 3), BitAnd(get_u8(data, 4), 7),
                                   get_u32_le(data, 5), get_u64_le(data, 9),
                                   SubSeq(data, HEADER_SIZE + 1, Len(data)))]

\* AudioPacket::deserialize: Option<AudioPacket>
deserialize(data) ==
    IF Len(data) < HEADER_SIZE THEN [some |-> FALSE, packet |-> NoAudioPacket]
    ELSE IF get_u16_le(data, 1) # PACKET_MAGIC THEN [some |-> FALSE, packet |-> NoAudioPacket]
    ELSE [some |-> TRUE,
          packet |-> AudioPacketOf(get_u8(data, 3), from_byte(get_u8(data, 4)),
                                   get_u32_le(data, 5), get_u64_le(data, 9),
                                   SubSeq(data, HEADER_SIZE + 1, Len(data)))]

\* the packets serialized: every field at its ends and in between, the payload
\* empty, the test's, and one that starts like a header
TrackIdBytes == {0, 5, 255}
FlagBytes == {0, 3, 133, 255}
SequenceInputs == {<<0, 0>>, <<12345, 0>>, <<65535, 65535>>}
TimestampInputs == {<<0, 0, 0, 0>>, <<5866, 19632, 2, 0>>, <<65535, 65535, 65535, 65535>>}
PayloadInputs == {<<>>, <<1, 2, 3, 4, 5>>, <<1, 175, 0>>}

\* byte strings that arrive without having been serialized here
ZeroBytes(n) == [i \in 1..n |-> 0]
RawInputs == {<<>>, <<1, 175>>, ZeroBytes(15), ZeroBytes(16), <<1, 175>> \o ZeroBytes(13),
              <<1, 175>> \o ZeroBytes(14), <<175, 1>> \o ZeroBytes(14)}

\* positions and values of the bytes damaged on the way
DamagedAt == {1, 2, 4, 16}
DamagedTo == {0, 1, 175}
MaxDamage == 1

Unparsed == [done |-> FALSE, some |-> FALSE, packet |-> NoAudioPacket]

PacketInit ==
    \E data \in RawInputs :
        wire = [sent |-> FALSE, packet |-> NoAudioPacket, data |-> data, damage |-> 0,
                got |-> Unparsed]

PacketOff ==
    wire = [sent |-> FALSE, packet |-> NoAudioPacket, data |-> <<>>, damage |-> 0,
            got |-> Unparsed]

\* P.serialize() for a packet P; one packet is serialized in a run
PkSerialize ==
    /\ Idle("packet")
    /\ ~wire.sent
    /\ \E t \in TrackIdBytes, f \in FlagBytes, q \in SequenceInputs, ts \in TimestampInputs,
          pl \in PayloadInputs :
          LET p == AudioPacketOf(t, f, q, ts, pl)
          IN  wire' = [sent |-> TRUE, packet |-> p, data |-> serialize(p), damage |-> 0,
                       got |-> Unparsed]

\* the datagram loses its tail
PkTruncate ==
    /\ Idle("packet")
    /\ wire.damage < MaxDamage
    /\ \E n \in {0, 1, 2, 15, 16} :
          /\ n < Len(wire.data)
          /\ wire' = [wire EXCEPT !.data = SubSeq(@, 1, n), !.damage = @ + 1,
                                  !.got = Unparsed]

\* one byte of the datagram is replaced
PkOverwrite ==
    /\ Idle("packet")
    /\ wire.damage < MaxDamage
    /\ \E at \in DamagedAt, b \in DamagedTo :
          /\ at <= Len(wire.data)
          /\ wire.data[at] # b
          /\ wire' = [wire EXCEPT !.data[at] = b, !.damage = @ + 1, !.got = Unparsed]

\* AudioPacket::deserialize(data)
PkDeserialize ==
    /\ Idle("packet")
    /\ ~wire.got.done
    /\ LET r == deserialize(wire.data)
       IN  wire' = [wire EXCEPT !.got = [done |-> TRUE, some |-> r.some, packet |-> r.packet]]

PacketNext == PkSerialize \/ PkTruncate \/ PkOverwrite \/ PkDeserialize

---------------------------------------------------------------------------
(* Properties of AudioPacket *)

\* the bytes in hand start with the magic, low byte first
StartsWithMagic ==
    /\ Len(wire.data) >= 2
    /\ wire.data[1] = PACKET_MAGIC % 256
    /\ wire.data[2] = PACKET_MAGIC \div 256

\* C25: deserialize(P.serialize()) is a packet equal to P field by field, for
\* every track_id, flags byte, sequence, timestamp and payload; a byte string
\* shorter than 16 bytes, or one that does not start with the magic 0xAF01 in
\* little-endian order, deserializes to None.
C25_RoundTrip ==
    wire.got.done =>
        /\ (wire.sent /\ wire.damage = 0) =>
              /\ wire.got.some
              /\ wire.got.packet.track_id = wire.packet.track_id
              /\ wire.got.packet.flags = wire.packet.flags
              /\ wire.got.packet.sequence = wire.packet.sequence
              /\ wire.got.packet.timestamp = wire.packet.timestamp
              /\ wire.got.packet.payload = wire.packet.payload
        /\ (Len(wire.data) < HEADER_SIZE \/ ~StartsWithMagic) => ~wire.got.some

\* a packet with reserved flag bits, a sequence and a timestamp of full width
\* and a payload has made the round trip
C25_Witness ==
    /\ wire.got.done /\ wire.got.some
    /\ wire.sent /\ wire.damage = 0
    /\ wire.packet.flags = 133
    /\ wire.packet.sequence = <<65535, 65535>>
    /\ wire.packet.timestamp = <<5866, 19632, 2, 0>>
    /\ wire.packet.payload = <<1, 2, 3, 4, 5>>

\* a datagram cut to 15 bytes and one whose magic was damaged were refused
C25_RefusedWitness ==
    /\ wire.got.done /\ ~wire.got.some
    /\ wire.damage = 1
    /\ Len(wire.data) >= HEADER_SIZE
    /\ ~StartsWithMagic

---------------------------------------------------------------------------
(* audio/level_meter.rs: SmoothLevelMeter.  The audio thread calls
   update_from_samples and the UI thread calls tick_for_ui; each call is a
   sequence of relaxed atomic loads and stores on state, last_update_us and
   last_peak_us, one step per access.  Levels are millibels, times are
   microseconds; the f32 factors are kept in thousandths. *)

\* LevelMeterParams: the defaults, with a hold time the clock can outrun
attack_ms == 5
release_ms == 150
peak_hold_ms == 100
peak_release_ms == 300
floor_millibels == -96000

\* the blocks: their level after the conversion to dB and the clamp
\* (a quiet block, a loud block)
InputMillibels == {-60000, -6000}

\* the clock is read 60 ms apart
ClockSteps == {60000}
MaxNowUs == 130000
MaxUpdateCalls == 2
MaxTickCalls == 2

\* f to the power n, in thousandths
RECURSIVE PowPermille(_, _)
PowPermille(f, n) == IF n = 0 THEN 1000 ELSE (f * PowPermille(f, n - 1)) \div 1000

\* e^(-10/tau) in thousandths for the time constants in use
Decay10(time_constant_ms) ==
    CASE time_constant_ms = 5 -> 135
      [] time_constant_ms = 150 -> 936
      [] time_constant_ms = 300 -> 967

\* compute_alpha: 1 - e^(-delta_ms/tau), in thousandths; delta_ms a multiple of 10
compute_alpha(delta_ms, time_constant_ms) ==
    IF time_constant_ms <= 0 THEN 1000
    ELSE 1000 - PowPermille(Decay10(time_constant_ms), delta_ms \div 10)

\* `x as i32` of x/1000: truncation toward zero
TruncPermille(x) == IF x < 0 THEN -((-x) \div 1000) ELSE x \div 1000

\* lerp_i32(a, b, t) with t in thousandths
lerp_i32(a, b, t) ==
    LET tc == Max(0, Min(1000, t))
    IN  TruncPermille(a * 1000 + (b - a) * tc)

LevelStateOf(level, peak) == [level_millibels |-> level, peak_millibels |-> peak]

\* SmoothLevelMeter::with_params
with_params ==
    [state |-> LevelStateOf(floor_millibels, floor_millibels),
     last_update_us |-> 0, last_peak_us |-> 0]

NoLocals == [pc |-> "idle", now_us |-> 0, last_us |-> 0, input |-> 0,
             current |-> LevelStateOf(0, 0), peak_age_ms |-> 0]

NoRise == [set |-> FALSE, at |-> 0, peak |-> 0]

MeterInit ==
    /\ meter = with_params
    /\ lm_now = 10000
    /\ audio_pc = NoLocals
    /\ ui_pc = NoLocals
    /\ lm_rise = NoRise
    /\ lm_ncalls = [update |-> 0, tick |-> 0]

MeterOff ==
    /\ meter = with_params
    /\ lm_now = 0
    /\ audio_pc = NoLocals
    /\ ui_pc = NoLocals
    /\ lm_rise = NoRise
    /\ lm_ncalls = [update |-> 0, tick |-> 0]

\* time passes
ClockAdvances ==
    /\ Idle("meter")
    /\ \E step \in ClockSteps :
          /\ lm_now + step <= MaxNowUs
          /\ lm_now' = lm_now + step
    /\ UNCHANGED <<meter, audio_pc, ui_pc, lm_rise, lm_ncalls>>

\* delta_ms of update_from_samples: 10 ms assumed for the first call
UpdateDeltaMs(l) == IF l.last_us > 0 THEN Max(0, l.now_us - l.last_us) \div 1000 ELSE 10

\* update_from_samples: the block's level, now_us, last_update_us.load
UpdateBegins ==
    /\ Idle("meter")
    /\ audio_pc.pc = "idle"
    /\ lm_ncalls.update < MaxUpdateCalls
    /\ \E input \in InputMillibels :
          audio_pc' = [NoLocals EXCEPT !.pc = "load_state", !.input = input,
                                       !.now_us = lm_now,
                                       !.last_us = meter.last_update_us]
    /\ lm_ncalls' = [lm_ncalls EXCEPT !.update = @ + 1]
    /\ UNCHANGED <<meter, lm_now, ui_pc, lm_rise>>

\* update_from_samples: state.load
UpdateLoadsState ==
    /\ Idle("meter")
    /\ audio_pc.pc = "load_state"
    /\ audio_pc' = [audio_pc EXCEPT !.pc = "load_peak_time", !.current = meter.state]
    /\ UNCHANGED <<meter, lm_now, ui_pc, lm_rise, lm_ncalls>>

\* update_from_samples: last_peak_us.load
UpdateLoadsPeakTime ==
    /\ Idle("meter")
    /\ audio_pc.pc = "load_peak_time"
    /\ audio_pc' = [audio_pc EXCEPT
                      !.pc = IF audio_pc.input > audio_pc.current.peak_millibels
                             THEN "store_peak_time" ELSE "store_state",
                      !.peak_age_ms = Max(0, audio_pc.now_us - meter.last_peak_us) \div 1000]
    /\ UNCHANGED <<meter, lm_now, ui_pc, lm_rise, lm_ncalls>>

\* update_from_samples, a new peak: last_peak_us.store(now_us)
UpdateStoresPeakTime ==
    /\ Idle("meter")
    /\ audio_pc.pc = "store_peak_time"
    /\ meter' = [meter EXCEPT !.last_peak_us = audio_pc.now_us]
    /\ audio_pc' = [audio_pc EXCEPT !.pc = "store_state"]
    /\ UNCHANGED <<lm_now, ui_pc, lm_rise, lm_ncalls>>

\* the state update_from_samples computes from its locals
update_state(l) ==
    LET delta_ms == UpdateDeltaMs(l)
        alpha == IF l.input > l.current.level_millibels
                 THEN compute_alpha(delta_ms, attack_ms)
                 ELSE compute_alpha(delta_ms, release_ms)
        new_level == lerp_i32(l.current.level_millibels, l.input, alpha)
        new_peak == IF l.input > l.current.peak_millibels THEN l.input
                    ELSE IF l.peak_age_ms > peak_hold_ms
                    THEN lerp_i32(l.current.peak_millibels, floor_millibels,
                                  compute_alpha(delta_ms, peak_release_ms))
                    ELSE l.current.peak_millibels
    IN  LevelStateOf(new_level, new_peak)

\* update_from_samples: state.store(new_state)
UpdateStoresState ==
    /\ Idle("meter")
    /\ audio_pc.pc = "store_state"
    /\ meter' = [meter EXCEPT !.state = update_state(audio_pc)]
    /\ audio_pc' = [audio_pc EXCEPT !.pc = "store_update_time"]
    /\ lm_rise' = IF audio_pc.input > audio_pc.current.peak_millibels
                  THEN [set |-> TRUE, at |-> audio_pc.now_us, peak |-> audio_pc.input]
                  ELSE lm_rise
    /\ UNCHANGED <<lm_now, ui_pc, lm_ncalls>>

\* update_from_samples: last_update_us.store(now_us), and the call returns
UpdateStoresUpdateTime ==
    /\ Idle("meter")
    /\ audio_pc.pc = "store_update_time"
    /\ meter' = [meter EXCEPT !.last_update_us = audio_pc.now_us]
    /\ audio_pc' = NoLocals
    /\ UNCHANGED <<lm_now, ui_pc, lm_rise, lm_ncalls>>

\* tick_for_ui: now_us, last_update_us.load; returns when there was no update
\* yet or the last one is at most 50 ms old
TickBegins ==
    /\ Idle("meter")
    /\ ui_pc.pc = "idle"
    /\ lm_ncalls.tick < MaxTickCalls
    /\ LET last_us == meter.last_update_us
           delta_ms == Max(0, lm_now - last_us) \div 1000
       IN  ui_pc' = IF last_us = 0 \/ ~(delta_ms > 50) THEN NoLocals
                    ELSE [NoLocals EXCEPT !.pc = "load_state", !.now_us = lm_now,
                                          !.last_us = last_us]
    /\ lm_ncalls' = [lm_ncalls EXCEPT !.tick = @ + 1]
    /\ UNCHANGED <<meter, lm_now, audio_pc, lm_rise>>

\* tick_for_ui: state.load
TickLoadsState ==
    /\ Idle("meter")
    /\ ui_pc.pc = "load_state"
    /\ ui_pc' = [ui_pc EXCEPT !.pc = "load_peak_time", !.current = meter.state]
    /\ UNCHANGED <<meter, lm_now, audio_pc, lm_rise, lm_ncalls>>

\* tick_for_ui: last_peak_us.load
TickLoadsPeakTime ==
    /\ Idle("meter")
    /\ ui_pc.pc = "load_peak_time"
    /\ ui_pc' = [ui_pc EXCEPT !.pc = "store_state",
                              !.peak_age_ms = Max(0, ui_pc.now_us - meter.last_peak_us) \div 1000]
    /\ UNCHANGED <<meter, lm_now, audio_pc, lm_rise, lm_ncalls>>

\* the state tick_for_ui computes from its locals
tick_state(l) ==
    LET delta_ms == Max(0, l.now_us - l.last_us) \div 1000
        new_level == lerp_i32(l.current.level_millibels, floor_millibels,
                              compute_alpha(Min(delta_ms, 100), release_ms))
        new_peak == IF l.peak_age_ms > peak_hold_ms
                    THEN lerp_i32(l.current.peak_millibels, floor_millibels,
                                  compute_alpha(Min(delta_ms, 100), peak_release_ms))
                    ELSE l.current.peak_millibels
    IN  LevelStateOf(new_level, new_peak)

\* tick_for_ui: state.store(new_state), and the call returns
TickStoresState ==
    /\ Idle("meter")
    /\ ui_pc.pc = "store_state"
    /\ meter' = [meter EXCEPT !.state = tick_state(ui_pc)]
    /\ ui_pc' = NoLocals
    /\ UNCHANGED <<lm_now, audio_pc, lm_rise, lm_ncalls>>

MeterNext ==
    \/ ClockAdvances
    \/ UpdateBegins
    \/ UpdateLoadsState
    \/ UpdateLoadsPeakTime
    \/ UpdateStoresPeakTime
    \/ UpdateStoresState
    \/ UpdateStoresUpdateTime
    \/ TickBegins
    \/ TickLoadsState
    \/ TickLoadsPeakTime
    \/ TickStoresState

---------------------------------------------------------------------------
(* Properties of SmoothLevelMeter *)

\* C22: when a loud block is passed to update_from_samples while the UI
\* thread is in tick_for_ui, the stored peak rises to the block's level and
\* is not lowered before peak_hold_ms has elapsed since that rise, in every
\* interleaving of the two calls.
C22_PeakHeld ==
    (lm_rise.set /\ (lm_now - lm_rise.at) \div 1000 < peak_hold_ms) =>
        meter.state.peak_millibels >= lm_rise.peak

---------------------------------------------------------------------------
(* The worker threads of DiscoveryService (beacon and listener), of
   AudioReceiver and of AudioSender, and the stop() of their owner.  Every
   worker is a loop `while running.load()`: it polls a non-blocking socket or
   a channel with a timeout, acts on what it got or waits a bounded time, and
   checks the flag again.  stop() stores false into the flag and joins the
   handles it holds. *)

Services == {"discovery", "receiver", "sender"}

AllWorkers == {"beacon", "listener", "receiver", "sender"}

\* the threads start() spawns, in the order stop() joins them
WorkersOf(kind) ==
    CASE kind = "discovery" -> <<"beacon", "listener">>
      [] kind = "receiver" -> <<"receiver">>
      [] kind = "sender" -> <<"sender">>

\* what a worker does with what it got: the beacon thread broadcasts, the
\* listener calls on_peer_discovered, the receiver dispatches the packet to
\* the channels, the sender sends the datagram
ActOf(w) ==
    CASE w = "beacon" -> "beacon_sent"
      [] w = "listener" -> "callback"
      [] w = "receiver" -> "dispatched"
      [] w = "sender" -> "datagram_sent"

MaxStarts == 2
MaxStops == 2
MaxActs == 2
MaxEmptyPolls == 2

NoThread == [pc |-> "none", empty |-> 0]

ServiceInit ==
    /\ \E kind \in Services : svc = [kind |-> kind, running |-> FALSE, handles |-> <<>>]
    /\ workers = [w \in AllWorkers |-> NoThread]
    /\ owner_pc = "idle"
    /\ svc_hist = [starts |-> 0, stops |-> 0, acts |-> 0, stopped |-> FALSE,
                   acted_after_stop |-> FALSE, acted_since_start |-> FALSE,
                   start_failed |-> FALSE]

ServiceOff ==
    /\ svc = [kind |-> "sender", running |-> FALSE, handles |-> <<>>]
    /\ workers = [w \in AllWorkers |-> NoThread]
    /\ owner_pc = "idle"
    /\ svc_hist = [starts |-> 0, stops |-> 0, acts |-> 0, stopped |-> FALSE,
                   acted_after_stop |-> FALSE, acted_since_start |-> FALSE,
                   start_failed |-> FALSE]

\* the members of a sequence of names
Names(seq) == {seq[i] : i \in DOMAIN seq}

\* start(): returns at once when running is set; AudioReceiver and AudioSender
\* create the socket first and set running after it, DiscoveryService sets
\* running before it creates the socket; then the threads are spawned and
\* their handles kept
start(s, socket_ok) ==
    IF s.running THEN s
    ELSE IF s.kind = "discovery"
    THEN [s EXCEPT !.running = TRUE,
                   !.handles = IF socket_ok THEN WorkersOf(s.kind) ELSE <<>>]
    ELSE IF socket_ok
    THEN [s EXCEPT !.running = TRUE, !.handles = WorkersOf(s.kind)]
    ELSE s

SvcStart ==
    /\ Idle("service")
    /\ owner_pc = "idle"
    /\ svc_hist.starts < MaxStarts
    /\ \E socket_ok \in BOOLEAN :
          LET s == start(svc, socket_ok)
              spawned == IF svc.running THEN {} ELSE Names(s.handles)
          IN  /\ svc' = s
              /\ workers' = [w \in AllWorkers |->
                                IF w \in spawned THEN [pc |-> "check", empty |-> 0]
                                ELSE workers[w]]
              /\ svc_hist' = [svc_hist EXCEPT
                                !.starts = @ + 1,
                                !.stopped = IF svc.running THEN @ ELSE FALSE,
                                !.acted_since_start = IF svc.running THEN @ ELSE FALSE,
                                !.start_failed = ~svc.running /\ ~socket_ok]
    /\ UNCHANGED owner_pc

\* stop(): running.store(false)
StopStores ==
    /\ Idle("service")
    /\ owner_pc = "idle"
    /\ svc_hist.stops < MaxStops
    /\ svc' = [svc EXCEPT !.running = FALSE]
    /\ owner_pc' = "join"
    /\ svc_hist' = [svc_hist EXCEPT !.stops = @ + 1, !.start_failed = FALSE]
    /\ UNCHANGED workers

\* handle.join() returns at once
joined_detached(w) == TRUE

\* handle.join() returns when the thread has finished
joined(w) == workers[w].pc = "exited"

\* stop(): takes the next handle and joins it
StopJoins ==
    /\ Idle("service")
    /\ owner_pc = "join"
    /\ svc.handles # <<>>
    /\ joined(Head(svc.handles))
    /\ svc' = [svc EXCEPT !.handles = Tail(@)]
    /\ UNCHANGED <<workers, owner_pc, svc_hist>>

\* stop(): no handle is left, the call returns
StopReturns ==
    /\ Idle("service")
    /\ owner_pc = "join"
    /\ svc.handles = <<>>
    /\ owner_pc' = "idle"
    /\ svc_hist' = [svc_hist EXCEPT !.stopped = TRUE]
    /\ UNCHANGED <<svc, workers>>

\* the loop condition: while running.load(Relaxed)
WorkerChecks(w) ==
    /\ Idle("service")
    /\ workers[w].pc = "check"
    /\ workers' = [workers EXCEPT ![w].pc = IF svc.running THEN "poll" ELSE "exited"]
    /\ UNCHANGED <<svc, owner_pc, svc_hist>>

\* the loop body had something to do: the beacon is sent, a datagram was
\* received, a packet was taken from the channel; the count of empty polls
\* starts again
WorkerActs(w) ==
    /\ Idle("service")
    /\ workers[w].pc = "poll"
    /\ workers' = [workers EXCEPT ![w] = [pc |-> "check", empty |-> 0]]
    /\ svc_hist' = [svc_hist EXCEPT
                      !.acts = Min(@ + 1, MaxActs),
                      !.acted_since_start = TRUE,
                      !.acted_after_stop = @ \/ svc_hist.stopped]
    /\ UNCHANGED <<svc, owner_pc>>

\* the loop body found nothing: WouldBlock or a timeout, one more empty poll
\* (empty_reads, consecutive_timeouts) and a bounded wait
WorkerWaits(w) ==
    /\ Idle("service")
    /\ workers[w].pc = "poll"
    /\ w # "beacon"
    /\ workers' = [workers EXCEPT ![w] = [pc |-> "check",
                                          empty |-> IF w = "listener" THEN 0
                                                    ELSE Min(@.empty + 1, MaxEmptyPolls)]]
    /\ UNCHANGED <<svc, owner_pc, svc_hist>>

\* sender_loop: the channel is disconnected, the loop breaks
SenderDisconnected ==
    /\ Idle("service")
    /\ workers["sender"].pc = "poll"
    /\ workers' = [workers EXCEPT !["sender"].pc = "exited"]
    /\ UNCHANGED <<svc, owner_pc, svc_hist>>

WorkerStep(w) == WorkerChecks(w) \/ WorkerActs(w) \/ WorkerWaits(w)

WorkerChecksFlag == \E w \in AllWorkers : WorkerChecks(w)

WorkerActsOnInput == \E w \in AllWorkers : WorkerActs(w)

WorkerWaitsForInput == \E w \in AllWorkers : WorkerWaits(w)

ServiceNext ==
    \/ SvcStart
    \/ StopStores
    \/ StopJoins
    \/ StopReturns
    \/ WorkerChecksFlag
    \/ WorkerActsOnInput
    \/ WorkerWaitsForInput
    \/ SenderDisconnected

\* a running thread is scheduled again and again, and so is the owner
ServiceFairness ==
    /\ \A w \in AllWorkers : WF_vars(WorkerChecks(w))
    /\ \A w \in AllWorkers : WF_vars(WorkerActs(w) \/ WorkerWaits(w))
    /\ WF_vars(StopJoins)
    /\ WF_vars(StopReturns)

---------------------------------------------------------------------------
(* Properties of the services' stop() *)

\* stop() has returned and start() was not called since
StopReturned == owner_pc = "idle" /\ svc_hist.stopped

\* C21 (after stop): once stop() has returned every worker thread that was
\* spawned has exited, and none of them has acted since: no callback fired,
\* no packet was dispatched, no datagram was sent.
NothingAfterStop ==
    StopReturned =>
        /\ \A w \in AllWorkers : workers[w].pc \in {"none", "exited"}
        /\ ~svc_hist.acted_after_stop

\* C21: stop() on DiscoveryService, AudioReceiver and AudioSender terminates,
\* and once it has returned the worker threads have exited: no
\* on_peer_discovered callback fires, no received packet is dispatched and no
\* datagram is sent after stop returns.
C21_StopTerminates ==
    /\ [](NothingAfterStop)
    /\ (owner_pc = "join") ~> (owner_pc = "idle")

\* stop() returned on a DiscoveryService whose two threads had been running
\* and had acted
C21_Witness ==
    /\ StopReturned
    /\ svc.kind = "discovery"
    /\ svc_hist.acted_since_start
    /\ workers["beacon"].pc = "exited" /\ workers["listener"].pc = "exited"


\* C39: if DiscoveryService::start fails, the service is left not running
\* and with no thread running, so that a later start() tries again.
C39_FailedStartLeavesStopped ==
    (svc.kind = "discovery" /\ svc_hist.start_failed) =>
        /\ ~svc.running
        /\ \A w \in Names(WorkersOf("discovery")) : workers[w].pc \in {"none", "exited"}

---------------------------------------------------------------------------
(* network/receiver.rs: the receive loop of AudioReceiver.  One step is one
   iteration that received a datagram: the counters, the parse, and the
   try_send to the channel of the packet's track and to the global channel.
   The consumers empty the channels at their own pace. *)

\* the track ids of the datagrams and of the registered channels
DispatchTrackIds == {0, 1}

\* bound on the number of datagrams a run receives
MaxDatagrams == 4

\* the size of a datagram, in bytes
DatagramSizes == {20}

\* Option<Sender>::None of global_tx
NoChannel == [queue |-> <<>>, connected |-> FALSE, some |-> FALSE]

\* Some(tx) of set_global_channel
SomeChannel == [queue |-> <<>>, connected |-> TRUE, some |-> TRUE]

\* AudioReceiver::new, then set_global_channel when the application uses one
AudioReceiverNew(global) ==
    [packets_received |-> 0, bytes_received |-> 0, invalid_packets |-> 0,
     track_channels |-> <<>>,
     global_tx |-> IF global THEN SomeChannel ELSE NoChannel]

\* the counters an AudioReceiver has (ReceiverStats)
ReceiverCounters(rx) == <<rx.packets_received, rx.bytes_received, rx.invalid_packets>>

\* the receiver with room in every channel
WithRoom(rx) ==
    [rx EXCEPT !.track_channels = [id \in DOMAIN rx.track_channels |->
                                      [rx.track_channels[id] EXCEPT !.queue = <<>>]],
               !.global_tx.queue = <<>>]

\* the receive loop, the arm `Ok((size, _addr))` of socket.recv_from
dispatch(rx, datagram) ==
    LET rx1 == [rx EXCEPT !.bytes_received = @ + datagram.size]
    IN  IF ~datagram.valid
        THEN [rx |-> [rx1 EXCEPT !.invalid_packets = @ + 1], dropped |-> 0]
        ELSE LET rx2 == [rx1 EXCEPT !.packets_received = @ + 1]
                 registered == datagram.track_id \in DOMAIN rx2.track_channels
                 to_track == IF registered
                             THEN try_send(rx2.track_channels[datagram.track_id],
                                           datagram.track_id)
                             ELSE [tx |-> NoChannel, result |-> "Ok"]
                 rx3 == IF registered
                        THEN [rx2 EXCEPT !.track_channels[datagram.track_id] = to_track.tx]
                        ELSE rx2
                 to_global == IF rx3.global_tx.some
                              THEN try_send(rx3.global_tx, datagram.track_id)
                              ELSE [tx |-> rx3.global_tx, result |-> "Ok"]
             IN  [rx |-> [rx3 EXCEPT !.global_tx = to_global.tx],
                  dropped |-> (IF to_track.result = "Ok" THEN 0 ELSE 1)
                              + (IF to_global.result = "Ok" THEN 0 ELSE 1)]

DispatchInit ==
    /\ \E global \in BOOLEAN : receiver = AudioReceiverNew(global)
    /\ rx_last = NoCall

DispatchOff ==
    /\ receiver = AudioReceiverNew(FALSE)
    /\ rx_last = NoCall

\* AudioReceiver::register_track
RegisterTrack ==
    /\ Idle("dispatch")
    /\ \E track_id \in DispatchTrackIds :
         /\ track_id \notin DOMAIN receiver.track_channels
         /\ receiver' = [receiver EXCEPT !.track_channels =
                            map_insert(@, track_id, ChannelNew(TRUE))]
    /\ rx_last' = [op |-> "register_track"]

\* one iteration of the receive loop with a datagram
Dispatch ==
    /\ Idle("dispatch")
    /\ receiver.packets_received + receiver.invalid_packets < MaxDatagrams
    /\ \E track_id \in DispatchTrackIds : \E valid \in BOOLEAN : \E size \in DatagramSizes :
         LET datagram == [track_id |-> track_id, valid |-> valid, size |-> size]
             r == dispatch(receiver, datagram)
         IN  /\ receiver' = r.rx
             /\ rx_last' = [op |-> "dispatch", track_id |-> track_id, valid |-> valid,
                            dropped |-> r.dropped,
                            counted |-> ReceiverCounters(r.rx)
                                          # ReceiverCounters(dispatch(WithRoom(receiver),
                                                                      datagram).rx)]

\* a consumer takes a packet from the channel of a track (rx.recv)
ConsumeTrack ==
    /\ Idle("dispatch")
    /\ \E track_id \in DOMAIN receiver.track_channels :
         /\ receiver.track_channels[track_id].queue # <<>>
         /\ receiver' = [receiver EXCEPT !.track_channels[track_id].queue = Tail(@)]
    /\ rx_last' = [op |-> "recv"]

\* a consumer takes a packet from the global channel (rx.recv)
ConsumeGlobal ==
    /\ Idle("dispatch")
    /\ receiver.global_tx.queue # <<>>
    /\ receiver' = [receiver EXCEPT !.global_tx.queue = Tail(@)]
    /\ rx_last' = [op |-> "recv"]

DispatchNext ==
    \/ RegisterTrack
    \/ Dispatch
    \/ ConsumeTrack
    \/ ConsumeGlobal

---------------------------------------------------------------------------
(* Properties of the receive loop *)

\* C36: when the receive loop finds the channel of the packet's track or the
\* global channel full, the packet is dropped without blocking and a counter
\* of the receiver is incremented for it, so that drops are observable.
C36_DropsCounted ==
    (rx_last.op = "dispatch" /\ rx_last.dropped > 0) => rx_last.counted

---------------------------------------------------------------------------
(* bin/peer.rs: the connected-peer map and the senders of the peer
   application.  The discovery callback runs handle_peer_discovered for a
   beacon, the main loop runs update_peer_connections once a second. *)

\* the keys "ip:audio_port" of the peers on the network
PeerKeys == {"p1", "p2"}

\* bound on the clock, in seconds
MaxPeerSecs == 15

\* the seconds that pass in one step of the clock
PeerClockSteps == {5}

\* ConnectedPeer of handle_peer_discovered
ConnectedPeerNew(now, auto_connect) == [last_seen |-> now, active |-> auto_connect]

\* handle_peer_discovered
handle_peer_discovered(connected, peer_key, now, auto_connect) ==
    IF peer_key \notin DOMAIN connected
    THEN map_insert(connected, peer_key, ConnectedPeerNew(now, auto_connect))
    ELSE [connected EXCEPT ![peer_key].last_seen = now]

\* update_peer_connections: the senders after the call; created are the
\* peers whose MultiTrackSender::new and start succeeded
update_peer_connections(connected, senders, created) ==
    LET wanted == {key \in DOMAIN connected :
                      connected[key].active /\ key \notin senders}
        with_new == senders \cup (wanted \cap created)
        inactive_keys == {key \in with_new :
                             IF key \in DOMAIN connected THEN ~connected[key].active
                             ELSE TRUE}
    IN  with_new \ inactive_keys

PeerAppInit ==
    \E auto_connect \in BOOLEAN :
        peerapp = [peers |-> <<>>, senders |-> {}, now |-> 0,
                   auto_connect |-> auto_connect, last |-> "none"]

PeerAppOff ==
    peerapp = [peers |-> <<>>, senders |-> {}, now |-> 0, auto_connect |-> FALSE,
               last |-> "none"]

\* the discovery callback: a beacon of a peer
PeerDiscovered ==
    /\ Idle("peerapp")
    /\ \E peer_key \in PeerKeys :
         peerapp' = [peerapp EXCEPT
                        !.peers = handle_peer_discovered(@, peer_key, peerapp.now,
                                                         peerapp.auto_connect),
                        !.last = "handle_peer_discovered"]

\* the main loop: `if last_peer_check_time.elapsed() >= Duration::from_secs(1)`
UpdatePeerConnections ==
    /\ Idle("peerapp")
    /\ \E created \in SUBSET PeerKeys :
         peerapp' = [peerapp EXCEPT
                        !.senders = update_peer_connections(peerapp.peers, @, created),
                        !.last = "update_peer_connections"]

\* time passes
PeerClockAdvances ==
    /\ Idle("peerapp")
    /\ peerapp.now < MaxPeerSecs
    /\ \E step \in PeerClockSteps :
         peerapp' = [peerapp EXCEPT !.now = @ + step, !.last = "none"]

PeerAppNext ==
    \/ PeerDiscovered
    \/ UpdatePeerConnections
    \/ PeerClockAdvances

---------------------------------------------------------------------------
(* Properties of the connected-peer map *)

\* the peers that were not seen for STALE_SECS seconds
SilentPeers ==
    {key \in DOMAIN peerapp.peers :
        peerapp.now - peerapp.peers[key].last_seen >= STALE_SECS}

\* C37: a discovered peer that has not been seen for 10 s is evicted from or
\* deactivated in the connected-peer map, and the next update_peer_connections
\* removes its MultiTrackSender: after update_peer_connections no such peer
\* has a sender.
C37_SilentPeerDropped ==
    peerapp.last = "update_peer_connections" => SilentPeers \cap peerapp.senders = {}

---------------------------------------------------------------------------
(* Two HandshakeManagers, one at each end of a network that may lose any
   datagram.  Each side initiates, processes the packets that reach it and
   sends the reply process_packet returns, and calls cleanup_stale. *)

\* bounds on the number of initiate calls and on the clock, in ticks
MaxLinkInitiates == 2
MaxLinkClock == 2

\* the address of the other side
OtherSide(side) == CHOOSE a \in Addrs : a # side

\* a handshake packet on its way
InFlight(from, to, packet) == [from |-> from, to |-> to, packet |-> packet]

LinkInit ==
    link = [hm |-> [a \in Addrs |-> HandshakeManagerNew(<<80, 67>>, 5000, full)],
            net |-> {}, now |-> 0, initiates |-> 0]

\* one side calls initiate and sends the Hello
LinkInitiate ==
    /\ Idle("link")
    /\ link.initiates < MaxLinkInitiates
    /\ \E side \in Addrs :
         LET r == initiate(link.hm[side], OtherSide(side), link.now)
         IN  link' = [link EXCEPT !.hm[side] = r.hm,
                                  !.net = @ \cup {InFlight(side, OtherSide(side), r.reply)},
                                  !.initiates = @ + 1]

\* a packet arrives: process_packet, and the reply it returns is sent back
LinkDeliver ==
    /\ Idle("link")
    /\ \E d \in link.net :
         LET r == process_packet(link.hm[d.to], d.from, d.packet, link.now)
             replies == IF r.reply = NoPacket THEN {}
                        ELSE {InFlight(d.to, d.from, r.reply)}
         IN  link' = [link EXCEPT !.hm[d.to] = r.hm,
                                  !.net = (@ \ {d}) \cup replies]

\* the network loses a packet
LinkLose ==
    /\ Idle("link")
    /\ \E d \in link.net : link' = [link EXCEPT !.net = @ \ {d}]

\* one side calls cleanup_stale
LinkCleanup ==
    /\ Idle("link")
    /\ \E side \in Addrs, timeout \in Timeouts :
         link' = [link EXCEPT !.hm[side] = cleanup_stale(@, timeout, link.now)]

\* time passes
LinkClockAdvances ==
    /\ Idle("link")
    /\ link.now < MaxLinkClock
    /\ link' = [link EXCEPT !.now = @ + 1]

LinkNext ==
    \/ LinkInitiate
    \/ LinkDeliver
    \/ LinkLose
    \/ LinkCleanup
    \/ LinkClockAdvances

---------------------------------------------------------------------------
(* Properties of the two HandshakeManagers *)

\* HandshakeManager::is_connected of one side for the other
LinkConnected(side) ==
    /\ OtherSide(side) \in DOMAIN link.hm[side].states
    /\ link.hm[side].states[OtherSide(side)].kind = "Connected"

\* C40: whenever one manager holds Connected for the other and no handshake
\* packet is in flight, the other manager holds Connected as well: a lost
\* HelloAck never leaves a connection half open.
C40_NoHalfOpen ==
    link.net = {} => \A side \in Addrs : LinkConnected(side) => LinkConnected(OtherSide(side))

---------------------------------------------------------------------------
(* Specifications: one component runs, the others are left alone *)

Off(c) ==
    /\ IF c \in {"jitter", "jbops"} THEN TRUE ELSE JitterOff
    /\ IF c = "ring" THEN TRUE ELSE RingOff
    /\ IF c \in {"tracks", "app", "calls", "threads"} THEN TRUE ELSE TracksOff
    /\ IF c = "threads" THEN TRUE ELSE ThreadsOff
    /\ IF c = "app" THEN TRUE ELSE AppOff
    /\ IF c = "sender" THEN TRUE ELSE SenderOff
    /\ IF c = "handshake" THEN TRUE ELSE HandshakeOff
    /\ IF c = "discovery" THEN TRUE ELSE DiscoveryOff
    /\ IF c = "packet" THEN TRUE ELSE PacketOff
    /\ IF c = "caps" THEN TRUE ELSE CapsOff
    /\ IF c = "meter" THEN TRUE ELSE MeterOff
    /\ IF c = "service" THEN TRUE ELSE ServiceOff
    /\ IF c = "dispatch" THEN TRUE ELSE DispatchOff
    /\ IF c = "peerapp" THEN TRUE ELSE PeerAppOff
    /\ IF c = "link" THEN TRUE ELSE LinkInit

InitJitter == JitterInit /\ Off("jitter")

SpecJitter == InitJitter /\ [][JitterNext]_vars

InitJbOps == JitterInit /\ Off("jbops")

SpecJbOps == InitJbOps /\ [][JbOpsNext]_vars

InitRing == RingInit /\ Off("ring")

SpecRing == InitRing /\ [][RingNext]_vars

InitTracks == TracksInit /\ Off("tracks")

SpecTracks == InitTracks /\ [][TracksNext]_vars

InitCalls == TracksInit /\ Off("calls")

SpecCalls == InitCalls /\ [][CallsNext]_vars

SpecLife == InitCalls /\ [][LifeNext]_vars

InitThreads == ThreadsInit /\ Off("threads")

SpecThreads == InitThreads /\ [][ThreadsNext]_vars

InitSolo == SoloInit /\ Off("threads")

SpecSolo == InitSolo /\ [][SoloNext]_vars

SpecRace == InitThreads /\ [][RaceNext]_vars

InitStart == StartInit /\ Off("threads")

SpecStart == InitStart /\ [][StartNext]_vars

SpecStartFair == SpecStart /\ StartFairness

InitApp == AppInit /\ Off("app")

SpecReceiver == InitApp /\ [][ReceiverNext]_vars

SpecPeer == InitApp /\ [][PeerNext]_vars

InitSender == SenderInit /\ Off("sender")

SpecSender == InitSender /\ [][SenderNext]_vars

InitHandshake == HandshakeInit /\ Off("handshake")

SpecHandshake == InitHandshake /\ [][HandshakeNext]_vars

InitPacket == PacketInit /\ Off("packet")

SpecPacket == InitPacket /\ [][PacketNext]_vars

InitCaps == CapsInit /\ Off("caps")

SpecCaps == InitCaps /\ [][CapsNext]_vars

InitMeter == MeterInit /\ Off("meter")

SpecMeter == InitMeter /\ [][MeterNext]_vars

InitService == ServiceInit /\ Off("service")

SpecService == InitService /\ [][ServiceNext]_vars

SpecServiceFair == SpecService /\ ServiceFairness

InitDispatch == DispatchInit /\ Off("dispatch")

SpecDispatch == InitDispatch /\ [][DispatchNext]_vars

InitPeerApp == PeerAppInit /\ Off("peerapp")

SpecPeerApp == InitPeerApp /\ [][PeerAppNext]_vars

InitLink == LinkInit /\ Off("link")

SpecLink == InitLink /\ [][LinkNext]_vars

InitDiscovery == DiscoveryInit /\ Off("discovery")

SpecDiscovery == InitDiscovery /\ [][DiscoveryNext]_vars

SpecOwnBeacon == InitDiscovery /\ [][OwnBeaconNext]_vars

=============================================================================
